---- MODULE Spec2Model ----
(***************************************************************************)
(* Model of the stream mirror (src/src/main.rs): the URL-to-local-path     *)
(* mapper, the visited set, the recursive HLS playlist rewriter and the    *)
(* DASH walker, as a state machine over an explicit call stack.            *)
(*                                                                         *)
(* Strings are sequences of one-character strings.  An URL is a record     *)
(* [host, segs, query]: segs are the '/'-separated pieces of the path      *)
(* after its leading '/', query is an optional string.  A local path is a  *)
(* record [abs, comps, trail]: its components, whether it starts at the    *)
(* filesystem root, and whether its text ends in '/'.                      *)
(***************************************************************************)
EXTENDS Integers, Sequences, FiniteSets, TLC

\* ------------------------------------------------------------ strings

Digits == {"0", "1", "2", "3", "4", "5", "6", "7", "8", "9"}

LowerLetters ==
    {"a", "b", "c", "d", "e", "f", "g", "h", "i", "j", "k", "l", "m",
     "n", "o", "p", "q", "r", "s", "t", "u", "v", "w", "x", "y", "z"}

UpperLetters ==
    {"A", "B", "C", "D", "E", "F", "G", "H", "I", "J", "K", "L", "M",
     "N", "O", "P", "Q", "R", "S", "T", "U", "V", "W", "X", "Y", "Z"}

\* char::is_ascii_alphanumeric
IsAsciiAlphanumeric(c) == c \in Digits \cup LowerLetters \cup UpperLetters

\* char::is_whitespace, over the characters the model uses
IsWhitespace(c) == c \in {" ", "\t", "\r", "\n"}

LowerPairs ==
    {<<"A", "a">>, <<"B", "b">>, <<"C", "c">>, <<"D", "d">>, <<"E", "e">>,
     <<"F", "f">>, <<"G", "g">>, <<"H", "h">>, <<"I", "i">>, <<"J", "j">>,
     <<"K", "k">>, <<"L", "l">>, <<"M", "m">>, <<"N", "n">>, <<"O", "o">>,
     <<"P", "p">>, <<"Q", "q">>, <<"R", "r">>, <<"S", "s">>, <<"T", "t">>,
     <<"U", "u">>, <<"V", "v">>, <<"W", "w">>, <<"X", "x">>, <<"Y", "y">>,
     <<"Z", "z">>}

\* char::to_ascii_lowercase
LowerChar(c) ==
    IF c \in UpperLetters THEN (CHOOSE p \in LowerPairs : p[1] = c)[2] ELSE c

\* str::to_ascii_lowercase
ToAsciiLowercase(s) == [i \in 1..Len(s) |-> LowerChar(s[i])]

\* str::starts_with / str::ends_with
StartsWith(s, p) == Len(p) <= Len(s) /\ SubSeq(s, 1, Len(p)) = p

EndsWith(s, p) == Len(p) <= Len(s) /\ SubSeq(s, Len(s) - Len(p) + 1, Len(s)) = p

\* the part of s from index i on (the slice &s[i..], 1-based)
From(s, i) == SubSeq(s, i, Len(s))

\* str::find(needle): the least 1-based index where needle starts, 0 if none
Find(s, needle) ==
    LET hits == {i \in 1..(Len(s) - Len(needle) + 1) :
                     SubSeq(s, i, i + Len(needle) - 1) = needle}
    IN  IF hits = {} THEN 0 ELSE CHOOSE i \in hits : \A j \in hits : i <= j

\* the greatest index of character c in s, 0 if none (str::rsplit_once, rsplit)
RFindChar(s, c) ==
    LET hits == {i \in 1..Len(s) : s[i] = c}
    IN  IF hits = {} THEN 0 ELSE CHOOSE i \in hits : \A j \in hits : j <= i

\* str::trim_start / trim_end / trim
RECURSIVE TrimStart(_)
TrimStart(s) ==
    IF s # <<>> /\ IsWhitespace(Head(s)) THEN TrimStart(Tail(s)) ELSE s

RECURSIVE TrimEnd(_)
TrimEnd(s) ==
    IF s # <<>> /\ IsWhitespace(s[Len(s)])
    THEN TrimEnd(SubSeq(s, 1, Len(s) - 1))
    ELSE s

Trim(s) == TrimEnd(TrimStart(s))

\* [T]::join(sep): the strings of a sequence with sep between them
RECURSIVE Join(_, _)
Join(parts, sep) ==
    IF parts = <<>> THEN <<>>
    ELSE IF Len(parts) = 1 THEN parts[1]
    ELSE parts[1] \o sep \o Join(Tail(parts), sep)

\* str::split(c): the pieces of s between occurrences of character c
RECURSIVE Split(_, _)
Split(s, c) ==
    LET hits == {i \in 1..Len(s) : s[i] = c}
    IN  IF hits = {} THEN <<s>>
        ELSE LET i == CHOOSE k \in hits : \A j \in hits : k <= j
             IN  <<SubSeq(s, 1, i - 1)>> \o Split(From(s, i + 1), c)

Min(a, b) == IF a <= b THEN a ELSE b

\* usize::saturating_sub
SaturatingSub(a, b) == IF a >= b THEN a - b ELSE 0


\* Option<T>
None == [some |-> FALSE, val |-> <<>>]

Some(v) == [some |-> TRUE, val |-> v]

\* ------------------------------------------------------------ URLs

\* Url::path(): "/" followed by the segments joined with "/"
UrlPath(url) == <<"/">> \o Join(url.segs, <<"/">>)

\* Url::query()
UrlQuery(url) == url.query

\* str::trim_start_matches('/')
RECURSIVE TrimStartSlashes(_)
TrimStartSlashes(s) ==
    IF s # <<>> /\ Head(s) = "/" THEN TrimStartSlashes(Tail(s)) ELSE s

\* url.path().trim_start_matches('/').split('/')
PathComponentsOf(url) == Split(TrimStartSlashes(UrlPath(url)), "/")

\* the segments of a path with its "." and ".." segments resolved, as the
\* URL parser does: ".." drops the segment before it, and a final "." or
\* ".." leaves an empty last segment
RECURSIVE RemoveDotSegments(_, _)
RemoveDotSegments(todo, done) ==
    IF todo = <<>> THEN (IF done = <<>> THEN << <<>> >> ELSE done)
    ELSE LET seg == Head(todo)
             slash == IF Len(todo) = 1 THEN << <<>> >> ELSE <<>>
         IN  IF seg = <<".", ".">>
             THEN RemoveDotSegments(Tail(todo),
                      (IF done = <<>> THEN <<>> ELSE SubSeq(done, 1, Len(done) - 1))
                      \o slash)
             ELSE IF seg = <<".">>
             THEN RemoveDotSegments(Tail(todo), done \o slash)
             ELSE RemoveDotSegments(Tail(todo), done \o <<seg>>)

\* Url::join(reference) for http(s) URLs and references without scheme or
\* fragment: "//host/path", "/path", "path" or "", each with an optional
\* "?query".  None is a parse error (an empty host).
UrlJoin(base, input) ==
    LET reference == Trim(input)
        qpos == Find(reference, <<"?">>)
        loc == IF qpos = 0 THEN reference ELSE SubSeq(reference, 1, qpos - 1)
        query == IF qpos = 0 THEN None ELSE Some(From(reference, qpos + 1))
    IN  IF StartsWith(loc, <<"/", "/">>)
        THEN LET rest == From(loc, 3)
                 slash == Find(rest, <<"/">>)
                 host == IF slash = 0 THEN rest ELSE SubSeq(rest, 1, slash - 1)
                 path == IF slash = 0 THEN <<>> ELSE From(rest, slash + 1)
             IN  IF host = <<>> THEN None
                 ELSE Some([host  |-> host,
                            segs  |-> RemoveDotSegments(Split(path, "/"), <<>>),
                            query |-> query])
        ELSE IF StartsWith(loc, <<"/">>)
        THEN Some([host  |-> base.host,
                   segs  |-> RemoveDotSegments(Split(From(loc, 2), "/"), <<>>),
                   query |-> query])
        ELSE IF loc = <<>>
        THEN Some([host  |-> base.host,
                   segs  |-> base.segs,
                   query |-> IF qpos = 0 THEN base.query ELSE query])
        ELSE Some([host  |-> base.host,
                   segs  |-> RemoveDotSegments(
                                 SubSeq(base.segs, 1, Len(base.segs) - 1)
                                 \o Split(loc, "/"), <<>>),
                   query |-> query])

\* ------------------------------------------------------------ local paths

\* the path components of a string: its non-empty '/'-separated pieces
RECURSIVE DropEmpty(_)
DropEmpty(parts) ==
    IF parts = <<>> THEN <<>>
    ELSE (IF Head(parts) = <<>> THEN <<>> ELSE <<Head(parts)>>) \o DropEmpty(Tail(parts))

\* PathBuf::from(s)
PathFrom(s) ==
    [abs   |-> StartsWith(s, <<"/">>),
     comps |-> DropEmpty(Split(s, "/")),
     trail |-> EndsWith(s, <<"/">>)]

\* Path::join(s): an absolute s replaces the path, any other s is appended
\* after a separator (so joining "" leaves a trailing separator)
PathJoin(p, s) ==
    IF StartsWith(s, <<"/">>) THEN PathFrom(s)
    ELSE [abs   |-> p.abs,
          comps |-> p.comps \o DropEmpty(Split(s, "/")),
          trail |-> s = <<>> \/ EndsWith(s, <<"/">>)]

\* Path::file_name()
FileName(p) == IF p.comps = <<>> THEN None ELSE Some(p.comps[Len(p.comps)])

\* Path::parent()
Parent(p) ==
    IF p.comps = <<>> THEN None
    ELSE Some([abs |-> p.abs, comps |-> SubSeq(p.comps, 1, Len(p.comps) - 1),
               trail |-> FALSE])

\* Path::extension(): the part of the file name after its last '.', none
\* when there is no file name, no '.', or the only '.' is the first character
Extension(p) ==
    LET f == FileName(p)
        dot == RFindChar(f.val, ".")
    IN  IF ~f.some \/ dot <= 1 THEN None ELSE Some(From(f.val, dot + 1))

\* Path::file_stem()
FileStem(p) ==
    LET f == FileName(p)
        dot == RFindChar(f.val, ".")
    IN  IF ~f.some THEN None
        ELSE IF dot <= 1 THEN f ELSE Some(SubSeq(f.val, 1, dot - 1))

\* PathBuf::set_file_name(name): pop the file name if there is one, push name
SetFileName(p, name) ==
    [abs   |-> p.abs,
     comps |-> (IF p.comps = <<>> THEN <<>> ELSE SubSeq(p.comps, 1, Len(p.comps) - 1))
               \o <<name>>,
     trail |-> FALSE]

\* PathBuf::set_extension(ext): nothing without a file name, else stem.ext
SetExtension(p, ext) ==
    IF ~FileName(p).some THEN p
    ELSE SetFileName(p, FileStem(p).val \o <<".">> \o ext)

\* the file a path names, whatever its text's trailing separator
FileKey(p) == [abs |-> p.abs, comps |-> p.comps]


\* pathdiff::diff_paths(target, base), then the components of the result
\* (a root component reads "/"); the target itself when only one of the two
\* is absolute
DiffPathComponents(target, base) ==
    LET a == target.comps
        b == base.comps
        same == {k \in 0..Min(Len(a), Len(b)) : SubSeq(a, 1, k) = SubSeq(b, 1, k)}
        k == CHOOSE n \in same : \A m \in same : m <= n
    IN  IF target.abs # base.abs
        THEN (IF target.abs THEN << <<"/">> >> ELSE <<>>) \o a
        ELSE [i \in 1..(Len(b) - k) |-> <<".", ".">>] \o SubSeq(a, k + 1, Len(a))

\* Mirror::to_posix_relative
to_posix_relative(target, base) == Join(DiffPathComponents(target, base), <<"/">>)

\* ------------------------------------------------------------ numbers

DigitPairs ==
    {<<"0", 0>>, <<"1", 1>>, <<"2", 2>>, <<"3", 3>>, <<"4", 4>>,
     <<"5", 5>>, <<"6", 6>>, <<"7", 7>>, <<"8", 8>>, <<"9", 9>>}

DigitValue(c) == (CHOOSE p \in DigitPairs : p[1] = c)[2]

DigitChar(n) == (CHOOSE p \in DigitPairs : p[2] = n)[1]

\* the number a string of decimal digits writes
RECURSIVE DecimalValue(_)
DecimalValue(s) ==
    IF s = <<>> THEN 0
    ELSE 10 * DecimalValue(SubSeq(s, 1, Len(s) - 1)) + DigitValue(s[Len(s)])

AllDigits(s) == \A i \in 1..Len(s) : s[i] \in Digits

\* str::parse::<u64>().ok(): decimal digits after an optional '+'
ParseU64(s) ==
    LET body == IF s # <<>> /\ Head(s) = "+" THEN Tail(s) ELSE s
    IN  IF body # <<>> /\ AllDigits(body) THEN Some(DecimalValue(body)) ELSE None

\* u64::to_string()
RECURSIVE ToDecimal(_)
ToDecimal(n) ==
    IF n < 10 THEN <<DigitChar(n)>>
    ELSE ToDecimal(n \div 10) \o <<DigitChar(n % 10)>>

\* str::replace(pattern, by): every occurrence, left to right
RECURSIVE Replace(_, _, _)
Replace(s, pattern, by) ==
    LET at == Find(s, pattern)
    IN  IF at = 0 THEN s
        ELSE SubSeq(s, 1, at - 1) \o by \o Replace(From(s, at + Len(pattern)), pattern, by)

\* ------------------------------------------------------------ f64

\* A natural number of any size: its digits to the base 2^15, lowest first,
\* the highest not 0; no digits for 0.

LimbBits == 15

LimbBase == 32768

RECURSIVE Pow2(_)
Pow2(k) == IF k = 0 THEN 1 ELSE 2 * Pow2(k - 1)

RECURSIVE Limbs(_)
Limbs(n) == IF n = 0 THEN <<>> ELSE <<n % LimbBase>> \o Limbs(n \div LimbBase)

\* the number, where it is small
RECURSIVE LimbsValue(_)
LimbsValue(a) == IF a = <<>> THEN 0 ELSE a[1] + LimbBase * LimbsValue(Tail(a))

\* without zeros at the high end
LimbsTrim(a) ==
    LET used == {i \in DOMAIN a : a[i] # 0}
    IN  IF used = {} THEN <<>>
        ELSE SubSeq(a, 1, CHOOSE i \in used : \A j \in used : j <= i)

RECURSIVE LimbsAddCarry(_, _, _)
LimbsAddCarry(a, b, carry) ==
    IF a = <<>> /\ b = <<>> THEN (IF carry = 0 THEN <<>> ELSE <<carry>>)
    ELSE LET x == IF a = <<>> THEN 0 ELSE a[1]
             y == IF b = <<>> THEN 0 ELSE b[1]
             sum == x + y + carry
         IN  <<sum % LimbBase>>
             \o LimbsAddCarry(IF a = <<>> THEN a ELSE Tail(a),
                              IF b = <<>> THEN b ELSE Tail(b),
                              sum \div LimbBase)

LimbsAdd(a, b) == LimbsAddCarry(a, b, 0)

\* a - b for a >= b
RECURSIVE LimbsSubBorrow(_, _, _)
LimbsSubBorrow(a, b, borrow) ==
    IF a = <<>> THEN <<>>
    ELSE LET y == IF b = <<>> THEN 0 ELSE b[1]
             diff == a[1] - y - borrow
         IN  <<IF diff < 0 THEN diff + LimbBase ELSE diff>>
             \o LimbsSubBorrow(Tail(a), IF b = <<>> THEN b ELSE Tail(b),
                               IF diff < 0 THEN 1 ELSE 0)

LimbsSub(a, b) == LimbsTrim(LimbsSubBorrow(a, b, 0))

\* a < b
LimbsLess(a, b) ==
    IF Len(a) # Len(b) THEN Len(a) < Len(b)
    ELSE LET differ == {i \in DOMAIN a : a[i] # b[i]}
             top == CHOOSE i \in differ : \A j \in differ : j <= i
         IN  differ # {} /\ a[top] < b[top]

\* a * k for k < 2^15
RECURSIVE LimbsScaleCarry(_, _, _)
LimbsScaleCarry(a, k, carry) ==
    IF a = <<>> THEN (IF carry = 0 THEN <<>> ELSE <<carry>>)
    ELSE LET product == a[1] * k + carry
         IN  <<product % LimbBase>>
             \o LimbsScaleCarry(Tail(a), k, product \div LimbBase)

LimbsScale(a, k) == IF k = 0 THEN <<>> ELSE LimbsScaleCarry(a, k, 0)

\* a * 2^k
LimbsShl(a, k) ==
    IF a = <<>> THEN a
    ELSE [i \in 1..(k \div LimbBits) |-> 0] \o LimbsScale(a, Pow2(k % LimbBits))

\* a div 2^k
LimbsShr(a, k) ==
    LET whole == k \div LimbBits
        part == k % LimbBits
        rest == IF whole >= Len(a) THEN <<>> ELSE SubSeq(a, whole + 1, Len(a))
    IN  LimbsTrim([i \in DOMAIN rest |->
                     rest[i] \div Pow2(part)
                     + (IF i < Len(rest) THEN (rest[i + 1] % Pow2(part)) * Pow2(LimbBits - part)
                        ELSE 0)])

RECURSIVE LimbsMul(_, _)
LimbsMul(a, b) ==
    IF a = <<>> \/ b = <<>> THEN <<>>
    ELSE LimbsAdd(LimbsScale(b, a[1]), LimbsShl(LimbsMul(Tail(a), b), LimbBits))

\* the number of binary digits
RECURSIVE BitLen(_)
BitLen(n) == IF n = 0 THEN 0 ELSE 1 + BitLen(n \div 2)

LimbsBitLen(a) ==
    IF a = <<>> THEN 0 ELSE LimbBits * (Len(a) - 1) + BitLen(a[Len(a)])

\* the number of binary zeros at the low end of a number that is not 0
LimbsTrailingZeros(a) ==
    LET first == CHOOSE i \in DOMAIN a : a[i] # 0 /\ \A j \in 1..(i - 1) : a[j] = 0
        zeros == CHOOSE z \in 0..LimbBits :
                    a[first] % Pow2(z) = 0 /\ a[first] % Pow2(z + 1) # 0
    IN  LimbBits * (first - 1) + zeros

\* one binary digit of the quotient: place is the divisor times 2^k
LimbsDivStep(at, place, k) ==
    IF LimbsLess(at.rem, place) THEN at
    ELSE [quot |-> LimbsAdd(at.quot, LimbsShl(<<1>>, k)),
          rem  |-> LimbsSub(at.rem, place)]

\* the quotient and the remainder of n by d, for a quotient below 2^k: one
\* binary digit of the quotient in each turn, the highest first, until
\* nothing remains
RECURSIVE LimbsDivLoop(_, _, _)
LimbsDivLoop(at, d, k) ==
    IF k = 0 \/ at.rem = <<>> THEN at
    ELSE LimbsDivLoop(LimbsDivStep(at, LimbsShl(d, k - 1), k - 1), d, k - 1)

LimbsDivMod(n, d, k) == LimbsDivLoop([quot |-> <<>>, rem |-> n], d, k)

\* A finite f64 that is not negative: m * 2^e with m odd, or m = 0 and e = 0.
\* (Every value here is far from the subnormal and from the infinite range.)

F64Mantissa == 53

F64Zero == [m |-> <<>>, e |-> 0]

\* m * 2^e for an m that ends in so many binary zeros
F64Shifted(m, e, zeros) == [m |-> LimbsShr(m, zeros), e |-> e + zeros]

\* m * 2^e with any m
F64Of(m, e) == IF m = <<>> THEN F64Zero ELSE F64Shifted(m, e, LimbsTrailingZeros(m))

\* the quotient of 53 or 54 binary digits rounded to 53, ties to the even
\* mantissa: with 53 digits it goes up by one if the remainder is more than
\* half of the divisor, or is half of it and the quotient is odd; with 54
\* digits the last digit goes, and what is left goes up by one if that digit
\* was 1 and either something remains or what is left is odd
F64RoundQuotient(qr, den, shift) ==
    IF LimbsBitLen(qr.quot) = F64Mantissa
    THEN F64Of(IF \/ LimbsLess(den, LimbsShl(qr.rem, 1))
                  \/ LimbsShl(qr.rem, 1) = den /\ qr.quot[1] % 2 = 1
               THEN LimbsAdd(qr.quot, <<1>>) ELSE qr.quot,
               0 - shift)
    ELSE F64Of(IF qr.quot[1] % 2 = 1 /\ (qr.rem # <<>> \/ (qr.quot[1] \div 2) % 2 = 1)
               THEN LimbsAdd(LimbsShr(qr.quot, 1), <<1>>) ELSE LimbsShr(qr.quot, 1),
               1 - shift)

\* n/d scaled by 2^shift
F64RoundScaled(n, d, shift) ==
    F64RoundQuotient(LimbsDivMod(IF shift >= 0 THEN LimbsShl(n, shift) ELSE n,
                                 IF shift >= 0 THEN d ELSE LimbsShl(d, 0 - shift),
                                 F64Mantissa + 1),
                     IF shift >= 0 THEN d ELSE LimbsShl(d, 0 - shift),
                     shift)

\* the f64 nearest to n/d (d > 0): n/d is scaled by the power of two that
\* gives a quotient of 53 or 54 binary digits
F64Round(n, d) ==
    IF n = <<>> THEN F64Zero
    ELSE F64RoundScaled(n, d, F64Mantissa - LimbsBitLen(n) + LimbsBitLen(d))

\* u64 as f64
F64FromU64(n) == F64Round(Limbs(n), <<1>>)

\* r * 2^e for an f64 r
F64Scaled(r, e) == IF r.m = <<>> THEN r ELSE [m |-> r.m, e |-> r.e + e]

F64Div(a, b) == F64Scaled(F64Round(a.m, b.m), a.e - b.e)

F64Mul(a, b) == F64Scaled(F64Round(LimbsMul(a.m, b.m), <<1>>), a.e + b.e)

\* a + b where e is the lower of the two exponents
F64AddAt(a, b, e) ==
    F64Scaled(F64Round(LimbsAdd(LimbsShl(a.m, a.e - e), LimbsShl(b.m, b.e - e)), <<1>>), e)

F64Add(a, b) == F64AddAt(a, b, IF a.e < b.e THEN a.e ELSE b.e)

\* f64::ceil() as u64, for a value whose ceiling is small
F64CeilU64(a) ==
    IF a.e >= 0 THEN LimbsValue(LimbsShl(a.m, a.e))
    ELSE LimbsValue(LimbsShr(a.m, 0 - a.e)) + 1

\* ------------------------------------------------------------ durations

\* the number a string of decimal digits writes, of any size
RECURSIVE DecimalLimbs(_)
DecimalLimbs(s) ==
    IF s = <<>> THEN <<>>
    ELSE LimbsAdd(LimbsScale(DecimalLimbs(SubSeq(s, 1, Len(s) - 1)), 10),
                  Limbs(DigitValue(s[Len(s)])))

RECURSIVE LimbsPow10(_)
LimbsPow10(k) == IF k = 0 THEN <<1>> ELSE LimbsScale(LimbsPow10(k - 1), 10)

\* str::parse::<f64>().ok() of a string of digits and '.': digits with at
\* most one '.', and at least one digit; the f64 nearest to the decimal
ParseF64(s) ==
    LET dot == Find(s, <<".">>)
        whole == IF dot = 0 THEN s ELSE SubSeq(s, 1, dot - 1)
        frac == IF dot = 0 THEN <<>> ELSE From(s, dot + 1)
    IN  IF AllDigits(whole) /\ AllDigits(frac) /\ whole \o frac # <<>>
        THEN Some(F64Round(DecimalLimbs(whole \o frac), LimbsPow10(Len(frac))))
        ELSE None

\* 3600.0 = 225 * 2^4 and 60.0 = 15 * 2^2
F64SecondsOfHour == [m |-> <<225>>, e |-> 4]

F64SecondsOfMinute == [m |-> <<15>>, e |-> 2]

\* hours * 3600.0 + mins * 60.0 + secs
TotalSeconds(hours, mins, secs) ==
    F64Add(F64Add(F64Mul(hours, F64SecondsOfHour), F64Mul(mins, F64SecondsOfMinute)),
           secs)

\* the number of leading characters of s that are digits or '.'
RECURSIVE NumberPrefixLen(_)
NumberPrefixLen(s) ==
    IF s # <<>> /\ (Head(s) \in Digits \/ Head(s) = ".")
    THEN 1 + NumberPrefixLen(Tail(s))
    ELSE 0

\* the loop of parse_iso8601_duration_seconds over what follows "PT"
RECURSIVE DurationLoop(_, _, _, _)

\* the end of a turn: the number goes to its unit
DurationUnit(tail, val, unit, hours, mins, secs) ==
    IF ~val.some \/ unit \notin {"H", "M", "S"} THEN None
    ELSE DurationLoop(tail,
                      IF unit = "H" THEN val.val ELSE hours,
                      IF unit = "M" THEN val.val ELSE mins,
                      IF unit = "S" THEN val.val ELSE secs)

\* a turn whose number has i characters
DurationTurn(rest, i, hours, mins, secs) ==
    IF rest = <<>> \/ i = 0 \/ i >= Len(rest)
    THEN Some(TotalSeconds(hours, mins, secs))
    ELSE DurationUnit(From(rest, i + 2), ParseF64(SubSeq(rest, 1, i)), rest[i + 1],
                      hours, mins, secs)

DurationLoop(rest, hours, mins, secs) ==
    DurationTurn(rest, NumberPrefixLen(rest), hours, mins, secs)

\* parse_iso8601_duration_seconds
parse_iso8601_duration_seconds(s) ==
    IF ~StartsWith(s, <<"P", "T">>) THEN None
    ELSE DurationLoop(From(s, 3), F64Zero, F64Zero, F64Zero)

\* ------------------------------------------------------------ state

VARIABLES
    scenario,                    \* the run's input: start URL and what the server holds
    out_dir,                     \* Mirror.out_dir
    visited,                     \* Mirror.visited
    master_url_path_components,  \* Mirror.master_url_path_components
    url_to_path,                 \* Mirror.url_to_path
    stack,                       \* the call stack of the mirror_* futures
    status,                      \* where main stands: "start", "running", "done", "failed"
    fs,                          \* the local filesystem: path -> directory or file content
    log,                         \* what the run did to the outside, in order
    ret                          \* the last call of path_for_url and what it returned

vars == <<scenario, out_dir, visited, master_url_path_components, url_to_path,
          stack, status, fs, log, ret>>

\* ------------------------------------------------------------ PathMapper

\* the length of the query string kept in a file name
QueryMaxLen == 32

\* the loop of path_for_url: the number of leading non-final components the
\* URL shares with the master manifest
RECURSIVE CommonPrefixIdx(_, _, _)
CommonPrefixIdx(base, rel, idx) ==
    IF /\ idx < SaturatingSub(Len(base), 1)
       /\ idx < SaturatingSub(Len(rel), 1)
       /\ base[idx + 1] = rel[idx + 1]
    THEN CommonPrefixIdx(base, rel, idx + 1)
    ELSE idx

\* the query string made safe for a file name
SafeQuery(q) ==
    LET safe == [i \in 1..Len(q) |-> IF IsAsciiAlphanumeric(q[i]) THEN q[i] ELSE "_"]
    IN  IF Len(safe) > QueryMaxLen THEN SubSeq(safe, 1, QueryMaxLen) ELSE safe

\* the file name that carries the query string
QueryFileName(fname, q) ==
    LET dot == RFindChar(fname, ".")
        stem == IF dot = 0 THEN fname ELSE SubSeq(fname, 1, dot - 1)
        tag == <<"_", "_", "q", "_">> \o SafeQuery(q)
    IN  IF dot = 0 THEN stem \o tag
        ELSE stem \o tag \o <<".">> \o From(fname, dot + 1)

\* the path path_for_url computes for an URL it has not mapped yet
ComputePath(out, base, url, is_manifest) ==
    LET rel == PathComponentsOf(url)
        idx == CommonPrefixIdx(base, rel, 0)
        rel_parts == Join(SubSeq(rel, idx + 1, Len(rel)), <<"/">>)
        joined == PathJoin(out, rel_parts)
        with_ext == IF is_manifest /\ ~Extension(joined).some
                    THEN SetExtension(joined, <<"m", "3", "u", "8">>)
                    ELSE joined
        q == UrlQuery(url)
    IN  IF q.some
        THEN SetFileName(with_ext, QueryFileName(FileName(with_ext).val, q.val))
        ELSE with_ext

\* Mirror::path_for_url: the cached path if there is one, else the computed
\* path, which is cached.  Gives the path and the cache after the call.
\* a mapper that does not consult its cache: every call computes the path
\* anew and stores it
PathForUrlNoCache(cache, out, base, url, is_manifest) ==
    LET local_path == ComputePath(out, base, url, is_manifest)
    IN  [path  |-> local_path,
         cache |-> [u \in DOMAIN cache \cup {url} |->
                       IF u = url THEN local_path ELSE cache[u]]]

PathForUrl(cache, out, base, url, is_manifest) ==
    IF url \in DOMAIN cache
    THEN [path |-> cache[url], cache |-> cache]
    ELSE LET local_path == ComputePath(out, base, url, is_manifest)
         IN  [path  |-> local_path,
              cache |-> [u \in DOMAIN cache \cup {url} |->
                            IF u = url THEN local_path ELSE cache[u]]]


\* ------------------------------------------------------------ HLS text

\* the HLS signature line
EXTM3U == <<"#", "E", "X", "T", "M", "3", "U">>

\* text.trim_start().starts_with("#EXTM3U")
IsHlsManifest(text) == StartsWith(TrimStart(text), EXTM3U)

\* a line without its final carriage return
StripCr(line) ==
    IF line # <<>> /\ line[Len(line)] = "\r" THEN SubSeq(line, 1, Len(line) - 1)
    ELSE line

\* str::lines(): the pieces between line feeds, each without a final
\* carriage return; no last empty line after a final line feed
Lines(text) ==
    LET parts == Split(text, "\n")
        kept == IF parts[Len(parts)] = <<>> THEN SubSeq(parts, 1, Len(parts) - 1)
                ELSE parts
    IN  [i \in 1..Len(kept) |-> StripCr(kept[i])]

\* Mirror::find_uri_attr: the value of the first URI="..." of a line lies at
\* the 1-based positions start..end-1; none without URI=" or closing quote
find_uri_attr(line) ==
    LET needle == <<"U", "R", "I", "=", "\"">>
        at == Find(line, needle)
        start_val == at + Len(needle)
        end_rel == Find(From(line, start_val), <<"\"">>)
    IN  IF at = 0 \/ end_rel = 0 THEN None
        ELSE Some([start |-> start_val, end |-> start_val + end_rel - 1])

\* child_url.path().to_ascii_lowercase().ends_with(".m3u8")
HasManifestExtension(url) ==
    EndsWith(ToAsciiLowercase(UrlPath(url)), <<".", "m", "3", "u", "8">>)


\* ------------------------------------------------------------ filesystem

\* the entry of the directory or file at the first k components of a path
PrefixKey(p, k) == [abs |-> p.abs, comps |-> SubSeq(p.comps, 1, k)]

IsDir(tree, key) == key \in DOMAIN tree /\ tree[key].dir

IsFile(tree, key) == key \in DOMAIN tree /\ ~tree[key].dir

\* tokio::fs::create_dir_all(dir) succeeds unless a file is in the way
CreateDirAllOk(tree, dir) ==
    \A k \in 1..Len(dir.comps) : ~IsFile(tree, PrefixKey(dir, k))

\* the filesystem after create_dir_all(dir)
CreateDirAll(tree, dir) ==
    LET made == {PrefixKey(dir, k) : k \in 1..Len(dir.comps)}
    IN  [key \in DOMAIN tree \cup made |->
            IF key \in DOMAIN tree THEN tree[key] ELSE [dir |-> TRUE, body |-> <<>>]]

\* tokio::fs::File::create(p) succeeds when p names no directory (neither by
\* a trailing separator nor by what is on disk) and its parent directory is
\* there (the working directory and the root always are)
FileCreateOk(tree, p) ==
    /\ ~p.trail
    /\ p.comps # <<>>
    /\ ~IsDir(tree, FileKey(p))
    /\ Len(p.comps) = 1 \/ IsDir(tree, PrefixKey(p, Len(p.comps) - 1))

\* the filesystem after File::create(p) and write_all(body)
WriteFile(tree, p, body) ==
    [key \in DOMAIN tree \cup {FileKey(p)} |->
        IF key = FileKey(p) THEN [dir |-> FALSE, body |-> body] ELSE tree[key]]

\* ------------------------------------------------------------ the server

\* what a GET of url returns in a scenario: a body, or a status error
HasPage(sc, url) == url \in DOMAIN sc.pages

PageBody(sc, url) == sc.pages[url].body

\* what roxmltree::Document::parse makes of the body
PageDoc(sc, url) == sc.pages[url].xml


\* ------------------------------------------------------------ the call stack

NoPath == [abs |-> FALSE, comps |-> <<>>, trail |-> FALSE]

NoUrl == [host |-> <<>>, segs |-> <<>>, query |-> None]

NoRet == [url |-> NoUrl, is_manifest |-> FALSE, path |-> NoPath]

\* a SegmentTemplate element: its attributes, each present or not
NoTemplate ==
    [initialization |-> None, media |-> None, timescale |-> None,
     duration |-> None, startNumber |-> None, endNumber |-> None]

\* a parsed document: whether the text is well-formed XML, the name of its
\* root element, the root's mediaPresentationDuration attribute, its Period
\* children
NoDoc == [parses |-> FALSE, root |-> <<>>, duration |-> None, periods |-> <<>>]

\* an u64: val when not big, and 2^64 - 1 - val when big
Small(n) == [big |-> FALSE, val |-> n]

Big(n) == [big |-> TRUE, val |-> n]

\* the frame of a call of fn(url) that has not started to run
Call(fn, url) ==
    [fn           |-> fn,
     pc           |-> "enter",
     url          |-> url,
     local_path   |-> NoPath,
     lines        |-> <<>>,
     i            |-> 1,
     output_lines |-> <<>>,
     child_url    |-> NoUrl,
     is_manifest  |-> FALSE,
     attr         |-> None,
     doc          |-> NoDoc,
     duration     |-> None,
     p            |-> 1,
     a            |-> 1,
     r            |-> 1,
     period_base  |-> NoUrl,
     aset_base    |-> NoUrl,
     rep_base     |-> NoUrl,
     rep_is_file  |-> FALSE,
     rep_id       |-> <<>>,
     st           |-> NoTemplate,
     media_tmpl   |-> <<>>,
     num          |-> 0,
     end_number   |-> Small(0)]

Top == stack[Len(stack)]

Running(fn, pc) ==
    /\ status = "running"
    /\ stack # <<>>
    /\ Top.fn = fn
    /\ Top.pc = pc

\* the stack with its top frame replaced
WithTop(frame) == [stack EXCEPT ![Len(stack)] = frame]

\* an error that is swallowed: the call returns Ok(()) to its caller
AbortSwallowed ==
    /\ stack' = SubSeq(stack, 1, Len(stack) - 1)
    /\ status' = IF Len(stack) = 1 THEN "done" ELSE status

\* an error leaves every frame through `?` and ends main
Abort ==
    /\ status' = "failed"
    /\ stack' = <<>>

\* the top call returns Ok(()) to its caller; main prints "Done." after the
\* first call
ReturnOk ==
    /\ stack' = SubSeq(stack, 1, Len(stack) - 1)
    /\ status' = IF Len(stack) = 1 THEN "done" ELSE status

\* a gate that never closes: every call goes on to fetch
\* the set without the URL that was to be put into it
InsertNothing(set, url) == set

\* a set that remembers only the URL put into it last
InsertForgetting(set, url) == {url}

\* HashSet::insert: the set with the URL in it
Insert(set, url) == set \cup {url}

AlreadyVisitedNever(url) == FALSE

\* a gate that closes for mirror_binary alone: a manifest is entered again
\* whenever it is referenced
AlreadyVisitedBinaryOnly(url) == Top.fn = "mirror_binary" /\ url \in visited

\* the gate at the head of mirror_binary, mirror_manifest and mirror_mpd:
\* HashSet::insert returns false for a URL that is already in the set
AlreadyVisited(url) == url \in visited

\* something the run did to the outside: "visit" (the URL entered the visited
\* set and got its path), "fetch" (a GET was sent), "write" (the file at the
\* URL's local path was written), "orig" (the .orig copy was written),
\* "error" (the GET failed or answered with an error status)
Event(op, url, path) == [op |-> op, fn |-> Top.fn, url |-> url, path |-> path]

\* ------------------------------------------------------------ mirror_binary

\* mirror_binary up to its GET: the visited gate, the path, the directory
BinaryEnter ==
    /\ Running("mirror_binary", "enter")
    /\ IF AlreadyVisited(Top.url)
       THEN /\ ReturnOk
            /\ UNCHANGED <<visited, url_to_path, fs, log, ret>>
       ELSE LET r == PathForUrl(url_to_path, out_dir, master_url_path_components,
                                Top.url, FALSE)
                parent == Parent(r.path)
                dir_ok == ~parent.some \/ CreateDirAllOk(fs, parent.val)
            IN  /\ visited' = Insert(visited, Top.url)
                /\ url_to_path' = r.cache
                /\ ret' = [url |-> Top.url, is_manifest |-> FALSE, path |-> r.path]
                /\ log' = Append(log, Event("visit", Top.url, r.path))
                /\ IF dir_ok
                   THEN /\ fs' = IF parent.some THEN CreateDirAll(fs, parent.val) ELSE fs
                        /\ stack' = WithTop([Top EXCEPT !.pc = "fetch",
                                                        !.local_path = r.path])
                        /\ UNCHANGED status
                   ELSE /\ Abort
                        /\ UNCHANGED fs
    /\ UNCHANGED <<scenario, out_dir, master_url_path_components>>

\* the GET of mirror_binary and the write of what it returned
BinaryFetch ==
    /\ Running("mirror_binary", "fetch")
    /\ \E network_ok \in BOOLEAN :
         LET ok == network_ok /\ HasPage(scenario, Top.url)
             fetched == Append(log, Event("fetch", Top.url, Top.local_path))
         IN  IF ~ok
             THEN /\ log' = Append(fetched, Event("error", Top.url, Top.local_path))
                  /\ Abort
                  /\ UNCHANGED fs
             ELSE IF ~FileCreateOk(fs, Top.local_path)
             THEN /\ log' = fetched
                  /\ Abort
                  /\ UNCHANGED fs
             ELSE /\ fs' = WriteFile(fs, Top.local_path, PageBody(scenario, Top.url))
                  /\ log' = Append(fetched, Event("write", Top.url, Top.local_path))
                  /\ ReturnOk
    /\ UNCHANGED <<scenario, out_dir, visited, master_url_path_components,
                   url_to_path, ret>>


\* ------------------------------------------------------------ mirror_manifest

\* the path of the unmodified copy kept next to a manifest
OrigPath(local_path, fallback) ==
    LET f == FileName(local_path)
    IN  IF f.some
        THEN SetFileName(local_path, f.val \o <<".", "o", "r", "i", "g">>)
        ELSE SetFileName(local_path, fallback)

ManifestOrigFallback ==
    <<"m", "a", "n", "i", "f", "e", "s", "t", ".", "m", "3", "u", "8",
      ".", "o", "r", "i", "g">>

\* mirror_manifest up to its GET: the visited gate, the path, the directory
ManifestEnter ==
    /\ Running("mirror_manifest", "enter")
    /\ IF AlreadyVisited(Top.url)
       THEN /\ ReturnOk
            /\ UNCHANGED <<visited, url_to_path, fs, log, ret>>
       ELSE LET r == PathForUrl(url_to_path, out_dir, master_url_path_components,
                                Top.url, TRUE)
                parent == Parent(r.path)
                dir_ok == ~parent.some \/ CreateDirAllOk(fs, parent.val)
            IN  /\ visited' = Insert(visited, Top.url)
                /\ url_to_path' = r.cache
                /\ ret' = [url |-> Top.url, is_manifest |-> TRUE, path |-> r.path]
                /\ log' = Append(log, Event("visit", Top.url, r.path))
                /\ IF dir_ok
                   THEN /\ fs' = IF parent.some THEN CreateDirAll(fs, parent.val) ELSE fs
                        /\ stack' = WithTop([Top EXCEPT !.pc = "fetch",
                                                        !.local_path = r.path])
                        /\ UNCHANGED status
                   ELSE /\ Abort
                        /\ UNCHANGED fs
    /\ UNCHANGED <<scenario, out_dir, master_url_path_components>>

\* the GET of mirror_manifest, the signature check with its hand-over to
\* mirror_binary, and the write of the .orig copy
ManifestFetch ==
    /\ Running("mirror_manifest", "fetch")
    /\ \E network_ok \in BOOLEAN :
         LET ok == network_ok /\ HasPage(scenario, Top.url)
             text == PageBody(scenario, Top.url)
             orig_path == OrigPath(Top.local_path, ManifestOrigFallback)
             fetched == Append(log, Event("fetch", Top.url, Top.local_path))
         IN  IF ~ok
             THEN /\ log' = Append(fetched, Event("error", Top.url, Top.local_path))
                  /\ Abort
                  /\ UNCHANGED fs
             ELSE IF ~IsHlsManifest(text)
             THEN /\ log' = fetched
                  /\ stack' = WithTop(Call("mirror_binary", Top.url))
                  /\ UNCHANGED <<status, fs>>
             ELSE IF ~FileCreateOk(fs, orig_path)
             THEN /\ log' = fetched
                  /\ Abort
                  /\ UNCHANGED fs
             ELSE /\ fs' = WriteFile(fs, orig_path, text)
                  /\ log' = Append(fetched, Event("orig", Top.url, orig_path))
                  /\ IF Parent(Top.local_path).some
                     THEN /\ stack' = WithTop([Top EXCEPT !.pc = "lines",
                                                          !.lines = Lines(text),
                                                          !.i = 1,
                                                          !.output_lines = <<>>])
                          /\ UNCHANGED status
                     ELSE Abort
    /\ UNCHANGED <<scenario, out_dir, visited, master_url_path_components,
                   url_to_path, ret>>

\* one turn of the loop over the lines, up to the recursive call: a tag or
\* blank line is copied, a reference is resolved and its mirror is called
ManifestLine ==
    /\ Running("mirror_manifest", "lines")
    /\ Top.i <= Len(Top.lines)
    /\ LET line == Top.lines[Top.i]
           trimmed == Trim(line)
           is_tag == StartsWith(trimmed, <<"#">>)
           attr == IF is_tag THEN find_uri_attr(line) ELSE None
           copied == (is_tag /\ ~attr.some) \/ (~is_tag /\ trimmed = <<>>)
           uri_val == IF attr.some THEN SubSeq(line, attr.val.start, attr.val.end - 1)
                      ELSE trimmed
           child_url == UrlJoin(Top.url, uri_val)
           is_manifest == HasManifestExtension(child_url.val)
       IN  IF copied
           THEN /\ stack' = WithTop([Top EXCEPT !.output_lines = Append(@, line),
                                                !.i = @ + 1])
                /\ UNCHANGED status
           ELSE IF ~child_url.some
           THEN Abort
           ELSE /\ stack' = Append(WithTop([Top EXCEPT !.pc = "resume",
                                                       !.child_url = child_url.val,
                                                       !.is_manifest = is_manifest,
                                                       !.attr = attr]),
                                   Call(IF is_manifest THEN "mirror_manifest"
                                        ELSE "mirror_binary", child_url.val))
                /\ UNCHANGED status
    /\ UNCHANGED <<scenario, out_dir, visited, master_url_path_components,
                   url_to_path, fs, log, ret>>

\* a rewriting that puts the relative path in the place of the tag line
SpliceUriWholeLine(line, attr, rel) == rel

\* the tag line with the relative path in the place of the value of URI
SpliceUri(line, attr, rel) ==
    SubSeq(line, 1, attr.start - 1) \o rel \o From(line, attr.end)

\* the rest of the turn, after the child's mirror returned Ok: the child's
\* local path, relative to this manifest's directory, replaces the reference
ManifestResume ==
    /\ Running("mirror_manifest", "resume")
    /\ LET r == PathForUrl(url_to_path, out_dir, master_url_path_components,
                           Top.child_url, Top.is_manifest)
           local_dir == Parent(Top.local_path).val
           rel == to_posix_relative(r.path, local_dir)
           line == Top.lines[Top.i]
           new_line == IF Top.attr.some THEN SpliceUri(line, Top.attr.val, rel)
                       ELSE rel
       IN  /\ url_to_path' = r.cache
           /\ ret' = [url |-> Top.child_url, is_manifest |-> Top.is_manifest,
                      path |-> r.path]
           /\ stack' = WithTop([Top EXCEPT !.pc = "lines",
                                           !.output_lines = Append(@, new_line),
                                           !.i = @ + 1])
    /\ UNCHANGED <<scenario, out_dir, visited, master_url_path_components,
                   status, fs, log>>

\* after the last line: the rewritten playlist is written
ManifestWrite ==
    /\ Running("mirror_manifest", "lines")
    /\ Top.i > Len(Top.lines)
    /\ IF FileCreateOk(fs, Top.local_path)
       THEN /\ fs' = WriteFile(fs, Top.local_path,
                               Join(Top.output_lines, <<"\n">>) \o <<"\n">>)
            /\ log' = Append(log, Event("write", Top.url, Top.local_path))
            /\ ReturnOk
       ELSE /\ Abort
            /\ UNCHANGED <<fs, log>>
    /\ UNCHANGED <<scenario, out_dir, visited, master_url_path_components,
                   url_to_path, ret>>


\* ------------------------------------------------------------ mirror_mpd

MpdOrigFallback ==
    <<"m", "a", "n", "i", "f", "e", "s", "t", ".", "m", "p", "d",
      ".", "o", "r", "i", "g">>

\* mirror_mpd up to its GET: the visited gate, the path, the directory
MpdEnter ==
    /\ Running("mirror_mpd", "enter")
    /\ IF AlreadyVisited(Top.url)
       THEN /\ ReturnOk
            /\ UNCHANGED <<visited, url_to_path, fs, log, ret>>
       ELSE LET r == PathForUrl(url_to_path, out_dir, master_url_path_components,
                                Top.url, TRUE)
                parent == Parent(r.path)
                dir_ok == ~parent.some \/ CreateDirAllOk(fs, parent.val)
            IN  /\ visited' = Insert(visited, Top.url)
                /\ url_to_path' = r.cache
                /\ ret' = [url |-> Top.url, is_manifest |-> TRUE, path |-> r.path]
                /\ log' = Append(log, Event("visit", Top.url, r.path))
                /\ IF dir_ok
                   THEN /\ fs' = IF parent.some THEN CreateDirAll(fs, parent.val) ELSE fs
                        /\ stack' = WithTop([Top EXCEPT !.pc = "fetch",
                                                        !.local_path = r.path])
                        /\ UNCHANGED status
                   ELSE /\ Abort
                        /\ UNCHANGED fs
    /\ UNCHANGED <<scenario, out_dir, master_url_path_components>>

\* the GET of mirror_mpd, the two copies of the text, the parse, the check of
\* the root element with its hand-over to mirror_binary, and the duration
MpdFetch ==
    /\ Running("mirror_mpd", "fetch")
    /\ \E network_ok \in BOOLEAN :
         LET ok == network_ok /\ HasPage(scenario, Top.url)
             text == PageBody(scenario, Top.url)
             doc == PageDoc(scenario, Top.url)
             orig_path == OrigPath(Top.local_path, MpdOrigFallback)
             fetched == Append(log, Event("fetch", Top.url, Top.local_path))
             with_orig == WriteFile(fs, orig_path, text)
             mpd_duration_secs ==
                 IF doc.duration.some
                 THEN parse_iso8601_duration_seconds(doc.duration.val)
                 ELSE None
         IN  IF ~ok
             THEN /\ log' = Append(fetched, Event("error", Top.url, Top.local_path))
                  /\ Abort
                  /\ UNCHANGED fs
             ELSE IF ~FileCreateOk(fs, orig_path)
             THEN /\ log' = fetched
                  /\ Abort
                  /\ UNCHANGED fs
             ELSE IF ~FileCreateOk(with_orig, Top.local_path)
             THEN /\ log' = Append(fetched, Event("orig", Top.url, orig_path))
                  /\ fs' = with_orig
                  /\ Abort
             ELSE /\ log' = Append(Append(fetched, Event("orig", Top.url, orig_path)),
                                   Event("write", Top.url, Top.local_path))
                  /\ fs' = WriteFile(with_orig, Top.local_path, text)
                  /\ IF ~doc.parses
                     THEN Abort
                     ELSE IF doc.root # <<"M", "P", "D">>
                     THEN /\ stack' = WithTop(Call("mirror_binary", Top.url))
                          /\ UNCHANGED status
                     ELSE /\ stack' = WithTop([Top EXCEPT !.pc = "period",
                                                          !.doc = doc,
                                                          !.duration = mpd_duration_secs,
                                                          !.p = 1])
                          /\ UNCHANGED status
    /\ UNCHANGED <<scenario, out_dir, visited, master_url_path_components,
                   url_to_path, ret>>

\* the base URL of a level: its own BaseURL joined to the inherited one, or
\* the inherited one; None when the join fails
ScopedBase(inherited, base) ==
    IF base.some THEN UrlJoin(inherited, Trim(base.val)) ELSE Some(inherited)

\* the head of the loop over the Periods: the next Period's base URL, or the
\* end of the walk
MpdPeriod ==
    /\ Running("mirror_mpd", "period")
    /\ IF Top.p > Len(Top.doc.periods)
       THEN ReturnOk
       ELSE LET period_base == ScopedBase(Top.url, Top.doc.periods[Top.p].base)
            IN  IF ~period_base.some
                THEN Abort
                ELSE /\ stack' = WithTop([Top EXCEPT !.pc = "aset",
                                                     !.period_base = period_base.val,
                                                     !.a = 1])
                     /\ UNCHANGED status
    /\ UNCHANGED <<scenario, out_dir, visited, master_url_path_components,
                   url_to_path, fs, log, ret>>

\* the head of the loop over the AdaptationSets of a Period
MpdAdaptationSet ==
    /\ Running("mirror_mpd", "aset")
    /\ LET asets == Top.doc.periods[Top.p].asets
       IN  IF Top.a > Len(asets)
           THEN /\ stack' = WithTop([Top EXCEPT !.pc = "period", !.p = @ + 1])
                /\ UNCHANGED status
           ELSE LET aset_base == ScopedBase(Top.period_base, asets[Top.a].base)
                IN  IF ~aset_base.some
                    THEN Abort
                    ELSE /\ stack' = WithTop([Top EXCEPT !.pc = "rep",
                                                         !.aset_base = aset_base.val,
                                                         !.r = 1])
                         /\ UNCHANGED status
    /\ UNCHANGED <<scenario, out_dir, visited, master_url_path_components,
                   url_to_path, fs, log, ret>>

\* the frame of handle_segment_template(base_url, representation_id, st,
\* mpd_duration_secs)
CallTemplate(base_url, rep_id, st, duration) ==
    [Call("handle_segment_template", base_url) EXCEPT
        !.rep_id = rep_id, !.st = st, !.duration = duration]

\* the head of the loop over the Representations of an AdaptationSet, up to
\* the first call: a Representation without id is passed over; with a
\* SegmentTemplate (its own, else the AdaptationSet's) the template is
\* handled; else a BaseURL that names a file is mirrored
MpdRepresentation ==
    /\ Running("mirror_mpd", "rep")
    /\ LET aset == Top.doc.periods[Top.p].asets[Top.a]
           rep == aset.reps[Top.r]
           is_file == rep.base.some /\ ~EndsWith(TrimEnd(rep.base.val), <<"/">>)
           rep_base == ScopedBase(Top.aset_base, rep.base)
           rep_st == IF rep.st.some THEN rep.st ELSE aset.st
           here == [Top EXCEPT !.rep_base = rep_base.val, !.rep_is_file = is_file]
       IN  IF Top.r > Len(aset.reps)
           THEN /\ stack' = WithTop([Top EXCEPT !.pc = "aset", !.a = @ + 1])
                /\ UNCHANGED status
           ELSE IF ~rep.id.some
           THEN /\ stack' = WithTop([Top EXCEPT !.r = @ + 1])
                /\ UNCHANGED status
           ELSE IF ~rep_base.some
           THEN Abort
           ELSE IF rep_st.some
           THEN /\ stack' = Append(WithTop([here EXCEPT !.pc = "after_template"]),
                                   CallTemplate(rep_base.val, rep.id.val, rep_st.val,
                                                Top.duration))
                /\ UNCHANGED status
           ELSE IF is_file
           THEN /\ stack' = Append(WithTop([here EXCEPT !.pc = "after_base"]),
                                   Call("mirror_binary", rep_base.val))
                /\ UNCHANGED status
           ELSE /\ stack' = WithTop([here EXCEPT !.r = @ + 1])
                /\ UNCHANGED status
    /\ UNCHANGED <<scenario, out_dir, visited, master_url_path_components,
                   url_to_path, fs, log, ret>>

\* after handle_segment_template returned Ok: a BaseURL that names a file is
\* mirrored
MpdAfterTemplate ==
    /\ Running("mirror_mpd", "after_template")
    /\ IF Top.rep_is_file
       THEN stack' = Append(WithTop([Top EXCEPT !.pc = "after_base"]),
                            Call("mirror_binary", Top.rep_base))
       ELSE stack' = WithTop([Top EXCEPT !.pc = "rep", !.r = @ + 1])
    /\ UNCHANGED <<scenario, out_dir, visited, master_url_path_components,
                   url_to_path, status, fs, log, ret>>

\* after the mirror of the BaseURL returned Ok: the next Representation
MpdAfterBase ==
    /\ Running("mirror_mpd", "after_base")
    /\ stack' = WithTop([Top EXCEPT !.pc = "rep", !.r = @ + 1])
    /\ UNCHANGED <<scenario, out_dir, visited, master_url_path_components,
                   url_to_path, status, fs, log, ret>>

\* ------------------------------------------------------------ handle_segment_template

RepresentationIdTag ==
    <<"$", "R", "e", "p", "r", "e", "s", "e", "n", "t", "a", "t", "i", "o", "n",
      "I", "D", "$">>

NumberTag == <<"$", "N", "u", "m", "b", "e", "r", "$">>

\* an optional attribute parsed as u64, none when absent or not a number
AttributeU64(attribute) == IF attribute.some THEN ParseU64(attribute.val) ELSE None

\* the initialization segment, if the template names one
TemplateInit ==
    /\ Running("handle_segment_template", "enter")
    /\ LET tmpl == Top.st.initialization
           path == Replace(tmpl.val, RepresentationIdTag, Top.rep_id)
           full == UrlJoin(Top.url, Trim(path))
       IN  IF ~tmpl.some
           THEN /\ stack' = WithTop([Top EXCEPT !.pc = "range"])
                /\ UNCHANGED status
           ELSE IF ~full.some
           THEN Abort
           ELSE /\ stack' = Append(WithTop([Top EXCEPT !.pc = "range"]),
                                   Call("mirror_binary", full.val))
                /\ UNCHANGED status
    /\ UNCHANGED <<scenario, out_dir, visited, master_url_path_components,
                   url_to_path, fs, log, ret>>

\* (total_secs / (dur_u as f64 / timescale as f64)).ceil() as u64, each step
\* rounded as f64 rounds it; 0 for a quotient that is 0 or not a number,
\* u64::MAX for an infinite one
SegmentCount(total_secs, dur_u, timescale) ==
    IF timescale = 0 \/ total_secs = F64Zero THEN Small(0)
    ELSE IF dur_u = 0 THEN Big(0)
    ELSE Small(F64CeilU64(F64Div(total_secs,
                                 F64Div(F64FromU64(dur_u), F64FromU64(timescale)))))

\* start_number + count - 1 in u64.  Where the sum or the difference leaves
\* the range of u64 the program panics if built with overflow checks and
\* wraps around if not: panics says which, and the result names a panic.
EndNumber(start_number, count, panics) ==
    IF ~count.big
    THEN IF start_number + count.val = 0
         THEN (IF panics THEN [panic |-> TRUE, end |-> Small(0)]
               ELSE [panic |-> FALSE, end |-> Big(0)])
         ELSE [panic |-> FALSE, end |-> Small(start_number + count.val - 1)]
    ELSE IF start_number = 0
         THEN [panic |-> FALSE, end |-> Big(1)]
         ELSE IF panics THEN [panic |-> TRUE, end |-> Small(0)]
         ELSE IF start_number = 1 THEN [panic |-> FALSE, end |-> Big(0)]
         ELSE [panic |-> FALSE, end |-> Small(start_number - 2)]

\* the media template and the range of segment numbers: nothing to do
\* without a media template; endNumber if given, else derived from the
\* durations, else no media segments at all
TemplateRange ==
    /\ Running("handle_segment_template", "range")
    /\ \E panics \in BOOLEAN :
         LET media == Top.st.media
             timescale == AttributeU64(Top.st.timescale)
             duration_units == AttributeU64(Top.st.duration)
             start_attr == AttributeU64(Top.st.startNumber)
             start_number == IF start_attr.some THEN start_attr.val ELSE 1
             end_number_attr == AttributeU64(Top.st.endNumber)
             count == SegmentCount(Top.duration.val, duration_units.val,
                                   IF timescale.some THEN timescale.val ELSE 1)
             derived == EndNumber(start_number, count, panics)
         IN  IF ~media.some \/ media.val = <<>>
             THEN ReturnOk
             ELSE IF end_number_attr.some
             THEN /\ stack' = WithTop([Top EXCEPT !.pc = "media",
                                                  !.media_tmpl = media.val,
                                                  !.num = start_number,
                                                  !.end_number = Small(end_number_attr.val)])
                  /\ UNCHANGED status
             ELSE IF ~duration_units.some \/ ~Top.duration.some
             THEN ReturnOk
             ELSE IF derived.panic
             THEN /\ status' = "panicked"
                  /\ stack' = <<>>
             ELSE /\ stack' = WithTop([Top EXCEPT !.pc = "media",
                                                  !.media_tmpl = media.val,
                                                  !.num = start_number,
                                                  !.end_number = derived.end])
                  /\ UNCHANGED status
    /\ UNCHANGED <<scenario, out_dir, visited, master_url_path_components,
                   url_to_path, fs, log, ret>>

\* the numbers a loop counter is followed to
MaxNumber == 8

\* one turn of the loop over the segment numbers, up to the call of
\* mirror_binary for the segment
TemplateMedia ==
    /\ Running("handle_segment_template", "media")
    /\ Top.num <= MaxNumber \/ (~Top.end_number.big /\ Top.num > Top.end_number.val)
    /\ LET path == Replace(Replace(Top.media_tmpl, RepresentationIdTag, Top.rep_id),
                           NumberTag, ToDecimal(Top.num))
           full == UrlJoin(Top.url, Trim(path))
       IN  IF ~Top.end_number.big /\ Top.num > Top.end_number.val
           THEN ReturnOk
           ELSE IF ~full.some
           THEN Abort
           ELSE /\ stack' = Append(WithTop([Top EXCEPT !.num = @ + 1]),
                                   Call("mirror_binary", full.val))
                /\ UNCHANGED status
    /\ UNCHANGED <<scenario, out_dir, visited, master_url_path_components,
                   url_to_path, fs, log, ret>>

\* ------------------------------------------------------------ scenarios

\* the pages of a server, from triples of URL, body and parsed body
Pages(triples) ==
    [url \in {p[1] : p \in triples} |->
        [body |-> (CHOOSE p \in triples : p[1] = url)[2],
         xml  |-> (CHOOSE p \in triples : p[1] = url)[3]]]

\* a master playlist, a variant playlist below it, one segment
\*   start https://h/a/b/master.m3u8
\*   https://h/a/b/master.m3u8 : #EXTM3U\nsub/child.m3u8\n
\*   https://h/a/b/sub/child.m3u8 : #EXTM3U\nseg1.ts\n
\*   https://h/a/b/sub/seg1.ts : D1
ScenarioNested ==
    [start |->
        [host |-> <<"h">>, segs |-> << <<"a">>, <<"b">>, <<"m", "a", "s", "t",
        "e", "r", ".", "m", "3", "u", "8">> >>, query |-> None],
     pages |-> Pages({
        <<[host |-> <<"h">>, segs |-> << <<"a">>, <<"b">>, <<"m", "a", "s",
          "t", "e", "r", ".", "m", "3", "u", "8">> >>, query |-> None],
          <<"#", "E", "X", "T", "M", "3", "U", "\n", "s", "u", "b", "/", "c",
          "h", "i", "l", "d", ".", "m", "3", "u", "8", "\n">>,
          NoDoc>>,
        <<[host |-> <<"h">>, segs |-> << <<"a">>, <<"b">>, <<"s", "u", "b">>,
          <<"c", "h", "i", "l", "d", ".", "m", "3", "u", "8">> >>,
          query |-> None],
          <<"#", "E", "X", "T", "M", "3", "U", "\n", "s", "e", "g", "1", ".",
          "t", "s", "\n">>,
          NoDoc>>,
        <<[host |-> <<"h">>, segs |-> << <<"a">>, <<"b">>, <<"s", "u", "b">>,
          <<"s", "e", "g", "1", ".", "t", "s">> >>, query |-> None],
          <<"D", "1">>,
          NoDoc>>})]

\* the same segment and key referenced several times, by bare lines and by
\* URI attributes; tag lines, a blank line, a line ending in CR LF
\*   start https://h/a/b/m.m3u8
\*   https://h/a/b/m.m3u8 : #EXTM3U\n#EXT-X-KEY:URI="k.key",IV=1\n\ns.ts\n s.ts\r\n#EXT-X-MAP:URI="s.ts"\n#EXTINF:2\r\nt.ts\n
\*   https://h/a/b/k.key : K1
\*   https://h/a/b/s.ts : D1
\*   https://h/a/b/t.ts : D2
ScenarioRepeated ==
    [start |->
        [host |-> <<"h">>, segs |-> << <<"a">>, <<"b">>, <<"m", ".", "m", "3",
        "u", "8">> >>, query |-> None],
     pages |-> Pages({
        <<[host |-> <<"h">>, segs |-> << <<"a">>, <<"b">>, <<"m", ".", "m",
          "3", "u", "8">> >>, query |-> None],
          <<"#", "E", "X", "T", "M", "3", "U", "\n", "#", "E", "X", "T", "-",
          "X", "-", "K", "E", "Y", ":", "U", "R", "I", "=", "\"", "k", ".",
          "k", "e", "y", "\"", ",", "I", "V", "=", "1", "\n", "\n", "s", ".",
          "t", "s", "\n", " ", "s", ".", "t", "s", "\r", "\n", "#", "E", "X",
          "T", "-", "X", "-", "M", "A", "P", ":", "U", "R", "I", "=", "\"",
          "s", ".", "t", "s", "\"", "\n", "#", "E", "X", "T", "I", "N", "F",
          ":", "2", "\r", "\n", "t", ".", "t", "s", "\n">>,
          NoDoc>>,
        <<[host |-> <<"h">>, segs |-> << <<"a">>, <<"b">>, <<"k", ".", "k",
          "e", "y">> >>, query |-> None],
          <<"K", "1">>,
          NoDoc>>,
        <<[host |-> <<"h">>, segs |-> << <<"a">>, <<"b">>, <<"s", ".", "t",
          "s">> >>, query |-> None],
          <<"D", "1">>,
          NoDoc>>,
        <<[host |-> <<"h">>, segs |-> << <<"a">>, <<"b">>, <<"t", ".", "t",
          "s">> >>, query |-> None],
          <<"D", "2">>,
          NoDoc>>})]

\* a playlist that references itself and a playlist that references it back
\*   start https://h/a/b/m.m3u8
\*   https://h/a/b/m.m3u8 : #EXTM3U\nm.m3u8\nc.m3u8\n
\*   https://h/a/b/c.m3u8 : #EXTM3U\n#EXT-X-MEDIA:URI="m.m3u8"\nc.m3u8\ns.ts\n
\*   https://h/a/b/s.ts : D1
ScenarioCycle ==
    [start |->
        [host |-> <<"h">>, segs |-> << <<"a">>, <<"b">>, <<"m", ".", "m", "3",
        "u", "8">> >>, query |-> None],
     pages |-> Pages({
        <<[host |-> <<"h">>, segs |-> << <<"a">>, <<"b">>, <<"m", ".", "m",
          "3", "u", "8">> >>, query |-> None],
          <<"#", "E", "X", "T", "M", "3", "U", "\n", "m", ".", "m", "3", "u",
          "8", "\n", "c", ".", "m", "3", "u", "8", "\n">>,
          NoDoc>>,
        <<[host |-> <<"h">>, segs |-> << <<"a">>, <<"b">>, <<"c", ".", "m",
          "3", "u", "8">> >>, query |-> None],
          <<"#", "E", "X", "T", "M", "3", "U", "\n", "#", "E", "X", "T", "-",
          "X", "-", "M", "E", "D", "I", "A", ":", "U", "R", "I", "=", "\"",
          "m", ".", "m", "3", "u", "8", "\"", "\n", "c", ".", "m", "3", "u",
          "8", "\n", "s", ".", "t", "s", "\n">>,
          NoDoc>>,
        <<[host |-> <<"h">>, segs |-> << <<"a">>, <<"b">>, <<"s", ".", "t",
          "s">> >>, query |-> None],
          <<"D", "1">>,
          NoDoc>>})]

\* a child named .m3u8 whose content is no playlist
\*   start https://h/a/b/m.m3u8
\*   https://h/a/b/m.m3u8 : #EXTM3U\nx.m3u8\ns.ts\n
\*   https://h/a/b/x.m3u8 : D9
\*   https://h/a/b/s.ts : D1
ScenarioNotHls ==
    [start |->
        [host |-> <<"h">>, segs |-> << <<"a">>, <<"b">>, <<"m", ".", "m", "3",
        "u", "8">> >>, query |-> None],
     pages |-> Pages({
        <<[host |-> <<"h">>, segs |-> << <<"a">>, <<"b">>, <<"m", ".", "m",
          "3", "u", "8">> >>, query |-> None],
          <<"#", "E", "X", "T", "M", "3", "U", "\n", "x", ".", "m", "3", "u",
          "8", "\n", "s", ".", "t", "s", "\n">>,
          NoDoc>>,
        <<[host |-> <<"h">>, segs |-> << <<"a">>, <<"b">>, <<"x", ".", "m",
          "3", "u", "8">> >>, query |-> None],
          <<"D", "9">>,
          NoDoc>>,
        <<[host |-> <<"h">>, segs |-> << <<"a">>, <<"b">>, <<"s", ".", "t",
          "s">> >>, query |-> None],
          <<"D", "1">>,
          NoDoc>>})]

\* a variant playlist whose URL does not end in .m3u8
\*   start https://h/a/b/m.m3u8
\*   https://h/a/b/m.m3u8 : #EXTM3U\nv\n
\*   https://h/a/b/v : #EXTM3U\ns.ts\n
\*   https://h/a/b/s.ts : D1
ScenarioNoExtension ==
    [start |->
        [host |-> <<"h">>, segs |-> << <<"a">>, <<"b">>, <<"m", ".", "m", "3",
        "u", "8">> >>, query |-> None],
     pages |-> Pages({
        <<[host |-> <<"h">>, segs |-> << <<"a">>, <<"b">>, <<"m", ".", "m",
          "3", "u", "8">> >>, query |-> None],
          <<"#", "E", "X", "T", "M", "3", "U", "\n", "v", "\n">>,
          NoDoc>>,
        <<[host |-> <<"h">>, segs |-> << <<"a">>, <<"b">>, <<"v">> >>,
          query |-> None],
          <<"#", "E", "X", "T", "M", "3", "U", "\n", "s", ".", "t", "s",
          "\n">>,
          NoDoc>>,
        <<[host |-> <<"h">>, segs |-> << <<"a">>, <<"b">>, <<"s", ".", "t",
          "s">> >>, query |-> None],
          <<"D", "1">>,
          NoDoc>>})]

\* the same path on two hosts, above and in the directory of the master
\*   start https://h/a/b/m.m3u8
\*   https://h/a/b/m.m3u8 : #EXTM3U\ns.ts\n/s.ts\n//g/a/b/s.ts\n../s.ts\n
\*   https://h/a/b/s.ts : D1
\*   https://h/s.ts : D2
\*   https://g/a/b/s.ts : D3
\*   https://h/a/s.ts : D4
ScenarioHosts ==
    [start |->
        [host |-> <<"h">>, segs |-> << <<"a">>, <<"b">>, <<"m", ".", "m", "3",
        "u", "8">> >>, query |-> None],
     pages |-> Pages({
        <<[host |-> <<"h">>, segs |-> << <<"a">>, <<"b">>, <<"m", ".", "m",
          "3", "u", "8">> >>, query |-> None],
          <<"#", "E", "X", "T", "M", "3", "U", "\n", "s", ".", "t", "s", "\n",
          "/", "s", ".", "t", "s", "\n", "/", "/", "g", "/", "a", "/", "b",
          "/", "s", ".", "t", "s", "\n", ".", ".", "/", "s", ".", "t", "s",
          "\n">>,
          NoDoc>>,
        <<[host |-> <<"h">>, segs |-> << <<"a">>, <<"b">>, <<"s", ".", "t",
          "s">> >>, query |-> None],
          <<"D", "1">>,
          NoDoc>>,
        <<[host |-> <<"h">>, segs |-> << <<"s", ".", "t", "s">> >>,
          query |-> None],
          <<"D", "2">>,
          NoDoc>>,
        <<[host |-> <<"g">>, segs |-> << <<"a">>, <<"b">>, <<"s", ".", "t",
          "s">> >>, query |-> None],
          <<"D", "3">>,
          NoDoc>>,
        <<[host |-> <<"h">>, segs |-> << <<"a">>, <<"s", ".", "t", "s">> >>,
          query |-> None],
          <<"D", "4">>,
          NoDoc>>})]

\* URLs that differ in their query string only
\*   start https://h/a/b/m.m3u8
\*   https://h/a/b/m.m3u8 : #EXTM3U\ns.ts\ns.ts?a=1\ns.ts?a-1\nv?k\n
\*   https://h/a/b/s.ts : D1
\*   https://h/a/b/s.ts?a=1 : D2
\*   https://h/a/b/s.ts?a-1 : D3
\*   https://h/a/b/v?k : D4
ScenarioQuery ==
    [start |->
        [host |-> <<"h">>, segs |-> << <<"a">>, <<"b">>, <<"m", ".", "m", "3",
        "u", "8">> >>, query |-> None],
     pages |-> Pages({
        <<[host |-> <<"h">>, segs |-> << <<"a">>, <<"b">>, <<"m", ".", "m",
          "3", "u", "8">> >>, query |-> None],
          <<"#", "E", "X", "T", "M", "3", "U", "\n", "s", ".", "t", "s", "\n",
          "s", ".", "t", "s", "?", "a", "=", "1", "\n", "s", ".", "t", "s",
          "?", "a", "-", "1", "\n", "v", "?", "k", "\n">>,
          NoDoc>>,
        <<[host |-> <<"h">>, segs |-> << <<"a">>, <<"b">>, <<"s", ".", "t",
          "s">> >>, query |-> None],
          <<"D", "1">>,
          NoDoc>>,
        <<[host |-> <<"h">>, segs |-> << <<"a">>, <<"b">>, <<"s", ".", "t",
          "s">> >>, query |-> Some(<<"a", "=", "1">>)],
          <<"D", "2">>,
          NoDoc>>,
        <<[host |-> <<"h">>, segs |-> << <<"a">>, <<"b">>, <<"s", ".", "t",
          "s">> >>, query |-> Some(<<"a", "-", "1">>)],
          <<"D", "3">>,
          NoDoc>>,
        <<[host |-> <<"h">>, segs |-> << <<"a">>, <<"b">>, <<"v">> >>,
          query |-> Some(<<"k">>)],
          <<"D", "4">>,
          NoDoc>>})]

\* signed URLs whose tokens differ after the 32nd character
\*   start https://h/a/b/m.m3u8
\*   https://h/a/b/m.m3u8 : #EXTM3U\ns.ts?t=xxxxxxxxxxxxxxxxxxxxxxxxxxxxxxa\ns.ts?t=xxxxxxxxxxxxxxxxxxxxxxxxxxxxxxb\n
\*   https://h/a/b/s.ts?t=xxxxxxxxxxxxxxxxxxxxxxxxxxxxxxa : D1
\*   https://h/a/b/s.ts?t=xxxxxxxxxxxxxxxxxxxxxxxxxxxxxxb : D2
ScenarioLongQuery ==
    [start |->
        [host |-> <<"h">>, segs |-> << <<"a">>, <<"b">>, <<"m", ".", "m", "3",
        "u", "8">> >>, query |-> None],
     pages |-> Pages({
        <<[host |-> <<"h">>, segs |-> << <<"a">>, <<"b">>, <<"m", ".", "m",
          "3", "u", "8">> >>, query |-> None],
          <<"#", "E", "X", "T", "M", "3", "U", "\n", "s", ".", "t", "s", "?",
          "t", "=", "x", "x", "x", "x", "x", "x", "x", "x", "x", "x", "x", "x",
          "x", "x", "x", "x", "x", "x", "x", "x", "x", "x", "x", "x", "x", "x",
          "x", "x", "x", "x", "a", "\n", "s", ".", "t", "s", "?", "t", "=",
          "x", "x", "x", "x", "x", "x", "x", "x", "x", "x", "x", "x", "x", "x",
          "x", "x", "x", "x", "x", "x", "x", "x", "x", "x", "x", "x", "x", "x",
          "x", "x", "b", "\n">>,
          NoDoc>>,
        <<[host |-> <<"h">>, segs |-> << <<"a">>, <<"b">>, <<"s", ".", "t",
          "s">> >>, query |-> Some(<<"t", "=", "x", "x", "x", "x", "x", "x",
          "x", "x", "x", "x", "x", "x", "x", "x", "x", "x", "x", "x", "x", "x",
          "x", "x", "x", "x", "x", "x", "x", "x", "x", "x", "a">>)],
          <<"D", "1">>,
          NoDoc>>,
        <<[host |-> <<"h">>, segs |-> << <<"a">>, <<"b">>, <<"s", ".", "t",
          "s">> >>, query |-> Some(<<"t", "=", "x", "x", "x", "x", "x", "x",
          "x", "x", "x", "x", "x", "x", "x", "x", "x", "x", "x", "x", "x", "x",
          "x", "x", "x", "x", "x", "x", "x", "x", "x", "x", "b">>)],
          <<"D", "2">>,
          NoDoc>>})]

\* references with an empty path segment, and to the root with a query
\*   start https://h/a/b/m.m3u8
\*   https://h/a/b/m.m3u8 : #EXTM3U\n/a/b//x.ts\n/?q\n
\*   https://h/a/b//x.ts : D1
\*   https://h/?q : D2
ScenarioEmptySegment ==
    [start |->
        [host |-> <<"h">>, segs |-> << <<"a">>, <<"b">>, <<"m", ".", "m", "3",
        "u", "8">> >>, query |-> None],
     pages |-> Pages({
        <<[host |-> <<"h">>, segs |-> << <<"a">>, <<"b">>, <<"m", ".", "m",
          "3", "u", "8">> >>, query |-> None],
          <<"#", "E", "X", "T", "M", "3", "U", "\n", "/", "a", "/", "b", "/",
          "/", "x", ".", "t", "s", "\n", "/", "?", "q", "\n">>,
          NoDoc>>,
        <<[host |-> <<"h">>, segs |-> << <<"a">>, <<"b">>, <<>>, <<"x", ".",
          "t", "s">> >>, query |-> None],
          <<"D", "1">>,
          NoDoc>>,
        <<[host |-> <<"h">>, segs |-> << <<>> >>, query |-> Some(<<"q">>)],
          <<"D", "2">>,
          NoDoc>>})]

\* a reference the server has no resource for
\*   start https://h/a/b/m.m3u8
\*   https://h/a/b/m.m3u8 : #EXTM3U\ns.ts\nmissing.ts\n
\*   https://h/a/b/s.ts : D1
ScenarioMissing ==
    [start |->
        [host |-> <<"h">>, segs |-> << <<"a">>, <<"b">>, <<"m", ".", "m", "3",
        "u", "8">> >>, query |-> None],
     pages |-> Pages({
        <<[host |-> <<"h">>, segs |-> << <<"a">>, <<"b">>, <<"m", ".", "m",
          "3", "u", "8">> >>, query |-> None],
          <<"#", "E", "X", "T", "M", "3", "U", "\n", "s", ".", "t", "s", "\n",
          "m", "i", "s", "s", "i", "n", "g", ".", "t", "s", "\n">>,
          NoDoc>>,
        <<[host |-> <<"h">>, segs |-> << <<"a">>, <<"b">>, <<"s", ".", "t",
          "s">> >>, query |-> None],
          <<"D", "1">>,
          NoDoc>>})]

\* a reference that does not parse (no host)
\*   start https://h/a/b/m.m3u8
\*   https://h/a/b/m.m3u8 : #EXTM3U\ns.ts\n//\n
\*   https://h/a/b/s.ts : D1
ScenarioBadReference ==
    [start |->
        [host |-> <<"h">>, segs |-> << <<"a">>, <<"b">>, <<"m", ".", "m", "3",
        "u", "8">> >>, query |-> None],
     pages |-> Pages({
        <<[host |-> <<"h">>, segs |-> << <<"a">>, <<"b">>, <<"m", ".", "m",
          "3", "u", "8">> >>, query |-> None],
          <<"#", "E", "X", "T", "M", "3", "U", "\n", "s", ".", "t", "s", "\n",
          "/", "/", "\n">>,
          NoDoc>>,
        <<[host |-> <<"h">>, segs |-> << <<"a">>, <<"b">>, <<"s", ".", "t",
          "s">> >>, query |-> None],
          <<"D", "1">>,
          NoDoc>>})]

\* a reference to a directory, which no file can be created for
\*   start https://h/a/b/m.m3u8
\*   https://h/a/b/m.m3u8 : #EXTM3U\nsub/\n
\*   https://h/a/b/sub/ : D1
ScenarioDirectory ==
    [start |->
        [host |-> <<"h">>, segs |-> << <<"a">>, <<"b">>, <<"m", ".", "m", "3",
        "u", "8">> >>, query |-> None],
     pages |-> Pages({
        <<[host |-> <<"h">>, segs |-> << <<"a">>, <<"b">>, <<"m", ".", "m",
          "3", "u", "8">> >>, query |-> None],
          <<"#", "E", "X", "T", "M", "3", "U", "\n", "s", "u", "b", "/",
          "\n">>,
          NoDoc>>,
        <<[host |-> <<"h">>, segs |-> << <<"a">>, <<"b">>, <<"s", "u", "b">>,
          <<>> >>, query |-> None],
          <<"D", "1">>,
          NoDoc>>})]

\* an upper-case start URL and an upper-case variant playlist
\*   start https://h/a/b/M.M3U8
\*   https://h/a/b/M.M3U8 : #EXTM3U\nC.M3U8\n
\*   https://h/a/b/C.M3U8 : #EXTM3U\ns.ts\n
\*   https://h/a/b/s.ts : D1
ScenarioUpperCase ==
    [start |->
        [host |-> <<"h">>, segs |-> << <<"a">>, <<"b">>, <<"M", ".", "M", "3",
        "U", "8">> >>, query |-> None],
     pages |-> Pages({
        <<[host |-> <<"h">>, segs |-> << <<"a">>, <<"b">>, <<"M", ".", "M",
          "3", "U", "8">> >>, query |-> None],
          <<"#", "E", "X", "T", "M", "3", "U", "\n", "C", ".", "M", "3", "U",
          "8", "\n">>,
          NoDoc>>,
        <<[host |-> <<"h">>, segs |-> << <<"a">>, <<"b">>, <<"C", ".", "M",
          "3", "U", "8">> >>, query |-> None],
          <<"#", "E", "X", "T", "M", "3", "U", "\n", "s", ".", "t", "s",
          "\n">>,
          NoDoc>>,
        <<[host |-> <<"h">>, segs |-> << <<"a">>, <<"b">>, <<"s", ".", "t",
          "s">> >>, query |-> None],
          <<"D", "1">>,
          NoDoc>>})]

\* a start URL that names no manifest
\*   start https://h/a/b/m.txt
\*   https://h/a/b/m.txt : #EXTM3U\ns.ts\n
ScenarioUnsupported ==
    [start |->
        [host |-> <<"h">>, segs |-> << <<"a">>, <<"b">>, <<"m", ".", "t", "x",
        "t">> >>, query |-> None],
     pages |-> Pages({
        <<[host |-> <<"h">>, segs |-> << <<"a">>, <<"b">>, <<"m", ".", "t",
          "x", "t">> >>, query |-> None],
          <<"#", "E", "X", "T", "M", "3", "U", "\n", "s", ".", "t", "s",
          "\n">>,
          NoDoc>>})]

\* a DASH manifest: two Representations that share the template of their
\* AdaptationSet and its initialization segment, a Representation without id
\* that names a file by its BaseURL, a subtitle track given by its BaseURL
\*   start https://h/v/m.mpd
\*   https://h/v/m.mpd : <MPD mediaPresentationDuration="PT4S"><Period><AdaptationSet><SegmentTemplate initialization="i.mp4" media="$RepresentationID$-$Number$.m4s" timescale="1000" duration="2000"/><Representation id="v"></Representation><Representation id="w"></Representation><Representation><BaseURL>n.vtt</BaseURL></Representation></AdaptationSet><AdaptationSet><Representation id="t"><BaseURL>t.vtt</BaseURL></Representation><Representation id="u"><BaseURL>d/</BaseURL></Representation></AdaptationSet></Period></MPD>
\*   https://h/v/i.mp4 : I1
\*   https://h/v/v-1.m4s : D1
\*   https://h/v/v-2.m4s : D2
\*   https://h/v/w-1.m4s : D3
\*   https://h/v/w-2.m4s : D4
\*   https://h/v/t.vtt : T1
\*   https://h/v/n.vtt : T2
ScenarioDash ==
    [start |->
        [host |-> <<"h">>, segs |-> << <<"v">>, <<"m", ".", "m", "p", "d">> >>,
        query |-> None],
     pages |-> Pages({
        <<[host |-> <<"h">>, segs |-> << <<"v">>, <<"m", ".", "m", "p",
          "d">> >>, query |-> None],
          <<"X", "1">>,
          [parses |-> TRUE, root |-> <<"M", "P", "D">>,
          duration |-> Some(<<"P", "T", "4", "S">>),
          periods |-> << [base |-> None, asets |-> << [base |-> None,
          st |-> Some([initialization |-> Some(<<"i", ".", "m", "p", "4">>),
          media |-> Some(<<"$", "R", "e", "p", "r", "e", "s", "e", "n", "t",
          "a", "t", "i", "o", "n", "I", "D", "$", "-", "$", "N", "u", "m", "b",
          "e", "r", "$", ".", "m", "4", "s">>), timescale |-> Some(<<"1", "0",
          "0", "0">>), duration |-> Some(<<"2", "0", "0", "0">>),
          startNumber |-> None, endNumber |-> None]),
          reps |-> << [id |-> Some(<<"v">>), base |-> None, st |-> None],
          [id |-> Some(<<"w">>), base |-> None, st |-> None], [id |-> None,
          base |-> Some(<<"n", ".", "v", "t", "t">>), st |-> None] >>],
          [base |-> None, st |-> None, reps |-> << [id |-> Some(<<"t">>),
          base |-> Some(<<"t", ".", "v", "t", "t">>), st |-> None],
          [id |-> Some(<<"u">>), base |-> Some(<<"d", "/">>),
          st |-> None] >>] >>] >>]>>,
        <<[host |-> <<"h">>, segs |-> << <<"v">>, <<"i", ".", "m", "p",
          "4">> >>, query |-> None],
          <<"I", "1">>,
          NoDoc>>,
        <<[host |-> <<"h">>, segs |-> << <<"v">>, <<"v", "-", "1", ".", "m",
          "4", "s">> >>, query |-> None],
          <<"D", "1">>,
          NoDoc>>,
        <<[host |-> <<"h">>, segs |-> << <<"v">>, <<"v", "-", "2", ".", "m",
          "4", "s">> >>, query |-> None],
          <<"D", "2">>,
          NoDoc>>,
        <<[host |-> <<"h">>, segs |-> << <<"v">>, <<"w", "-", "1", ".", "m",
          "4", "s">> >>, query |-> None],
          <<"D", "3">>,
          NoDoc>>,
        <<[host |-> <<"h">>, segs |-> << <<"v">>, <<"w", "-", "2", ".", "m",
          "4", "s">> >>, query |-> None],
          <<"D", "4">>,
          NoDoc>>,
        <<[host |-> <<"h">>, segs |-> << <<"v">>, <<"t", ".", "v", "t",
          "t">> >>, query |-> None],
          <<"T", "1">>,
          NoDoc>>,
        <<[host |-> <<"h">>, segs |-> << <<"v">>, <<"n", ".", "v", "t",
          "t">> >>, query |-> None],
          <<"T", "2">>,
          NoDoc>>})]

\* a DASH manifest with BaseURLs at every level, endNumber given, and a
\* Representation whose BaseURL names a file next to its template
\*   start https://h/v/m.mpd
\*   https://h/v/m.mpd : <MPD><Period><BaseURL>p/</BaseURL><AdaptationSet><BaseURL>a/</BaseURL><Representation id="v"><BaseURL>f.mp4</BaseURL><SegmentTemplate initialization="i-$RepresentationID$.mp4" media="s$Number$.m4s" startNumber="3" endNumber="4"/></Representation><Representation id="w"><SegmentTemplate initialization="i-$RepresentationID$.mp4"/></Representation></AdaptationSet></Period></MPD>
\*   https://h/v/p/a/f.mp4 : F1
\*   https://h/v/p/a/i-v.mp4 : I1
\*   https://h/v/p/a/i-w.mp4 : I2
\*   https://h/v/p/a/s3.m4s : D3
\*   https://h/v/p/a/s4.m4s : D4
ScenarioDashEndNumber ==
    [start |->
        [host |-> <<"h">>, segs |-> << <<"v">>, <<"m", ".", "m", "p", "d">> >>,
        query |-> None],
     pages |-> Pages({
        <<[host |-> <<"h">>, segs |-> << <<"v">>, <<"m", ".", "m", "p",
          "d">> >>, query |-> None],
          <<"X", "2">>,
          [parses |-> TRUE, root |-> <<"M", "P", "D">>, duration |-> None,
          periods |-> << [base |-> Some(<<"p", "/">>),
          asets |-> << [base |-> Some(<<"a", "/">>), st |-> None,
          reps |-> << [id |-> Some(<<"v">>), base |-> Some(<<"f", ".", "m",
          "p", "4">>), st |-> Some([initialization |-> Some(<<"i", "-", "$",
          "R", "e", "p", "r", "e", "s", "e", "n", "t", "a", "t", "i", "o", "n",
          "I", "D", "$", ".", "m", "p", "4">>), media |-> Some(<<"s", "$", "N",
          "u", "m", "b", "e", "r", "$", ".", "m", "4", "s">>),
          timescale |-> None, duration |-> None, startNumber |-> Some(<<"3">>),
          endNumber |-> Some(<<"4">>)])], [id |-> Some(<<"w">>), base |-> None,
          st |-> Some([initialization |-> Some(<<"i", "-", "$", "R", "e", "p",
          "r", "e", "s", "e", "n", "t", "a", "t", "i", "o", "n", "I", "D", "$",
          ".", "m", "p", "4">>), media |-> None, timescale |-> None,
          duration |-> None, startNumber |-> None,
          endNumber |-> None])] >>] >>] >>]>>,
        <<[host |-> <<"h">>, segs |-> << <<"v">>, <<"p">>, <<"a">>, <<"f", ".",
          "m", "p", "4">> >>, query |-> None],
          <<"F", "1">>,
          NoDoc>>,
        <<[host |-> <<"h">>, segs |-> << <<"v">>, <<"p">>, <<"a">>, <<"i", "-",
          "v", ".", "m", "p", "4">> >>, query |-> None],
          <<"I", "1">>,
          NoDoc>>,
        <<[host |-> <<"h">>, segs |-> << <<"v">>, <<"p">>, <<"a">>, <<"i", "-",
          "w", ".", "m", "p", "4">> >>, query |-> None],
          <<"I", "2">>,
          NoDoc>>,
        <<[host |-> <<"h">>, segs |-> << <<"v">>, <<"p">>, <<"a">>, <<"s", "3",
          ".", "m", "4", "s">> >>, query |-> None],
          <<"D", "3">>,
          NoDoc>>,
        <<[host |-> <<"h">>, segs |-> << <<"v">>, <<"p">>, <<"a">>, <<"s", "4",
          ".", "m", "4", "s">> >>, query |-> None],
          <<"D", "4">>,
          NoDoc>>})]

\* a DASH manifest whose presentation duration lacks the leading PT
\*   start https://h/v/m.mpd
\*   https://h/v/m.mpd : <MPD mediaPresentationDuration="3M30S"><Period><AdaptationSet><SegmentTemplate initialization="i.mp4" media="s$Number$.m4s" timescale="1" duration="10"/><Representation id="v"></Representation></AdaptationSet></Period></MPD>
\*   https://h/v/i.mp4 : I1
\*   https://h/v/s1.m4s : D1
ScenarioDashNoDuration ==
    [start |->
        [host |-> <<"h">>, segs |-> << <<"v">>, <<"m", ".", "m", "p", "d">> >>,
        query |-> None],
     pages |-> Pages({
        <<[host |-> <<"h">>, segs |-> << <<"v">>, <<"m", ".", "m", "p",
          "d">> >>, query |-> None],
          <<"X", "3">>,
          [parses |-> TRUE, root |-> <<"M", "P", "D">>,
          duration |-> Some(<<"3", "M", "3", "0", "S">>),
          periods |-> << [base |-> None, asets |-> << [base |-> None,
          st |-> Some([initialization |-> Some(<<"i", ".", "m", "p", "4">>),
          media |-> Some(<<"s", "$", "N", "u", "m", "b", "e", "r", "$", ".",
          "m", "4", "s">>), timescale |-> Some(<<"1">>),
          duration |-> Some(<<"1", "0">>), startNumber |-> None,
          endNumber |-> None]), reps |-> << [id |-> Some(<<"v">>),
          base |-> None, st |-> None] >>] >>] >>]>>,
        <<[host |-> <<"h">>, segs |-> << <<"v">>, <<"i", ".", "m", "p",
          "4">> >>, query |-> None],
          <<"I", "1">>,
          NoDoc>>,
        <<[host |-> <<"h">>, segs |-> << <<"v">>, <<"s", "1", ".", "m", "4",
          "s">> >>, query |-> None],
          <<"D", "1">>,
          NoDoc>>})]

\* a DASH manifest of duration zero: a Representation whose segment numbers
\* start at 1 and one whose segment numbers start at 0
\*   start https://h/v/m.mpd
\*   https://h/v/m.mpd : <MPD mediaPresentationDuration="PT0S"><Period><AdaptationSet><Representation id="v"><SegmentTemplate media="s$Number$.m4s" duration="2"/></Representation><Representation id="u"><SegmentTemplate media="s$Number$.m4s" duration="2" startNumber="0"/></Representation></AdaptationSet></Period></MPD>
\*   https://h/v/s0.m4s : D0
\*   https://h/v/s1.m4s : D1
ScenarioDashZero ==
    [start |->
        [host |-> <<"h">>, segs |-> << <<"v">>, <<"m", ".", "m", "p", "d">> >>,
        query |-> None],
     pages |-> Pages({
        <<[host |-> <<"h">>, segs |-> << <<"v">>, <<"m", ".", "m", "p",
          "d">> >>, query |-> None],
          <<"X", "4">>,
          [parses |-> TRUE, root |-> <<"M", "P", "D">>,
          duration |-> Some(<<"P", "T", "0", "S">>),
          periods |-> << [base |-> None, asets |-> << [base |-> None,
          st |-> None, reps |-> << [id |-> Some(<<"v">>), base |-> None,
          st |-> Some([initialization |-> None, media |-> Some(<<"s", "$", "N",
          "u", "m", "b", "e", "r", "$", ".", "m", "4", "s">>),
          timescale |-> None, duration |-> Some(<<"2">>), startNumber |-> None,
          endNumber |-> None])], [id |-> Some(<<"u">>), base |-> None,
          st |-> Some([initialization |-> None, media |-> Some(<<"s", "$", "N",
          "u", "m", "b", "e", "r", "$", ".", "m", "4", "s">>),
          timescale |-> None, duration |-> Some(<<"2">>),
          startNumber |-> Some(<<"0">>), endNumber |-> None])] >>] >>] >>]>>,
        <<[host |-> <<"h">>, segs |-> << <<"v">>, <<"s", "0", ".", "m", "4",
          "s">> >>, query |-> None],
          <<"D", "0">>,
          NoDoc>>,
        <<[host |-> <<"h">>, segs |-> << <<"v">>, <<"s", "1", ".", "m", "4",
          "s">> >>, query |-> None],
          <<"D", "1">>,
          NoDoc>>})]

\* a DASH manifest of 2.1 seconds in segments of 7/10 of a second: three
\* segments hold it, and the server has a fourth
\*   start https://h/v/m.mpd
\*   https://h/v/m.mpd : <MPD mediaPresentationDuration="PT2.1S"><Period><AdaptationSet><SegmentTemplate media="s$Number$.m4s" timescale="10" duration="7"/><Representation id="v"></Representation></AdaptationSet></Period></MPD>
\*   https://h/v/s1.m4s : D1
\*   https://h/v/s2.m4s : D2
\*   https://h/v/s3.m4s : D3
\*   https://h/v/s4.m4s : D4
ScenarioDashRounding ==
    [start |->
        [host |-> <<"h">>, segs |-> << <<"v">>, <<"m", ".", "m", "p", "d">> >>,
        query |-> None],
     pages |-> Pages({
        <<[host |-> <<"h">>, segs |-> << <<"v">>, <<"m", ".", "m", "p",
          "d">> >>, query |-> None],
          <<"X", "8">>,
          [parses |-> TRUE, root |-> <<"M", "P", "D">>,
          duration |-> Some(<<"P", "T", "2", ".", "1", "S">>),
          periods |-> << [base |-> None, asets |-> << [base |-> None,
          st |-> Some([initialization |-> None, media |-> Some(<<"s", "$", "N",
          "u", "m", "b", "e", "r", "$", ".", "m", "4", "s">>),
          timescale |-> Some(<<"1", "0">>), duration |-> Some(<<"7">>),
          startNumber |-> None, endNumber |-> None]),
          reps |-> << [id |-> Some(<<"v">>), base |-> None,
          st |-> None] >>] >>] >>]>>,
        <<[host |-> <<"h">>, segs |-> << <<"v">>, <<"s", "1", ".", "m", "4",
          "s">> >>, query |-> None],
          <<"D", "1">>,
          NoDoc>>,
        <<[host |-> <<"h">>, segs |-> << <<"v">>, <<"s", "2", ".", "m", "4",
          "s">> >>, query |-> None],
          <<"D", "2">>,
          NoDoc>>,
        <<[host |-> <<"h">>, segs |-> << <<"v">>, <<"s", "3", ".", "m", "4",
          "s">> >>, query |-> None],
          <<"D", "3">>,
          NoDoc>>,
        <<[host |-> <<"h">>, segs |-> << <<"v">>, <<"s", "4", ".", "m", "4",
          "s">> >>, query |-> None],
          <<"D", "4">>,
          NoDoc>>})]

\* a DASH manifest whose presentation duration ends in a letter that is no
\* unit; two Representations with a template each, the
\* second with an endNumber below its startNumber
\*   start https://h/v/m.mpd
\*   https://h/v/m.mpd : <MPD mediaPresentationDuration="PT4SX"><Period><AdaptationSet><Representation id="v"><SegmentTemplate initialization="i.mp4" media="s$Number$.m4s" duration="2"/></Representation><Representation id="w"><SegmentTemplate initialization="j.mp4" media="t$Number$.m4s" startNumber="2" endNumber="1"/></Representation></AdaptationSet></Period></MPD>
\*   https://h/v/i.mp4 : I1
\*   https://h/v/j.mp4 : I2
\*   https://h/v/s1.m4s : D1
\*   https://h/v/s2.m4s : D2
ScenarioDashBadUnit ==
    [start |->
        [host |-> <<"h">>, segs |-> << <<"v">>, <<"m", ".", "m", "p", "d">> >>,
        query |-> None],
     pages |-> Pages({
        <<[host |-> <<"h">>, segs |-> << <<"v">>, <<"m", ".", "m", "p",
          "d">> >>, query |-> None],
          <<"X", "9">>,
          [parses |-> TRUE, root |-> <<"M", "P", "D">>,
          duration |-> Some(<<"P", "T", "4", "S", "X">>),
          periods |-> << [base |-> None, asets |-> << [base |-> None,
          st |-> None, reps |-> << [id |-> Some(<<"v">>), base |-> None,
          st |-> Some([initialization |-> Some(<<"i", ".", "m", "p", "4">>),
          media |-> Some(<<"s", "$", "N", "u", "m", "b", "e", "r", "$", ".",
          "m", "4", "s">>), timescale |-> None, duration |-> Some(<<"2">>),
          startNumber |-> None, endNumber |-> None])], [id |-> Some(<<"w">>),
          base |-> None, st |-> Some([initialization |-> Some(<<"j", ".", "m",
          "p", "4">>), media |-> Some(<<"t", "$", "N", "u", "m", "b", "e", "r",
          "$", ".", "m", "4", "s">>), timescale |-> None, duration |-> None,
          startNumber |-> Some(<<"2">>),
          endNumber |-> Some(<<"1">>)])] >>] >>] >>]>>,
        <<[host |-> <<"h">>, segs |-> << <<"v">>, <<"i", ".", "m", "p",
          "4">> >>, query |-> None],
          <<"I", "1">>,
          NoDoc>>,
        <<[host |-> <<"h">>, segs |-> << <<"v">>, <<"j", ".", "m", "p",
          "4">> >>, query |-> None],
          <<"I", "2">>,
          NoDoc>>,
        <<[host |-> <<"h">>, segs |-> << <<"v">>, <<"s", "1", ".", "m", "4",
          "s">> >>, query |-> None],
          <<"D", "1">>,
          NoDoc>>,
        <<[host |-> <<"h">>, segs |-> << <<"v">>, <<"s", "2", ".", "m", "4",
          "s">> >>, query |-> None],
          <<"D", "2">>,
          NoDoc>>})]

\* a start URL named .mpd whose document has another root element
\*   start https://h/v/m.mpd
\*   https://h/v/m.mpd : <html></html>
ScenarioDashNotMpd ==
    [start |->
        [host |-> <<"h">>, segs |-> << <<"v">>, <<"m", ".", "m", "p", "d">> >>,
        query |-> None],
     pages |-> Pages({
        <<[host |-> <<"h">>, segs |-> << <<"v">>, <<"m", ".", "m", "p",
          "d">> >>, query |-> None],
          <<"X", "5">>,
          [parses |-> TRUE, root |-> <<"h", "t", "m", "l">>, duration |-> None,
          periods |-> <<  >>]>>})]

\* a start URL named .mpd whose content is no XML
\*   start https://h/v/m.mpd
\*   https://h/v/m.mpd : X6
ScenarioDashNotXml ==
    [start |->
        [host |-> <<"h">>, segs |-> << <<"v">>, <<"m", ".", "m", "p", "d">> >>,
        query |-> None],
     pages |-> Pages({
        <<[host |-> <<"h">>, segs |-> << <<"v">>, <<"m", ".", "m", "p",
          "d">> >>, query |-> None],
          <<"X", "6">>,
          NoDoc>>})]

\* a DASH manifest with a BaseURL that does not parse (no host)
\*   start https://h/v/m.mpd
\*   https://h/v/m.mpd : <MPD><Period><AdaptationSet><Representation id="v"><BaseURL>//</BaseURL></Representation></AdaptationSet></Period></MPD>
ScenarioDashBadBase ==
    [start |->
        [host |-> <<"h">>, segs |-> << <<"v">>, <<"m", ".", "m", "p", "d">> >>,
        query |-> None],
     pages |-> Pages({
        <<[host |-> <<"h">>, segs |-> << <<"v">>, <<"m", ".", "m", "p",
          "d">> >>, query |-> None],
          <<"X", "7">>,
          [parses |-> TRUE, root |-> <<"M", "P", "D">>, duration |-> None,
          periods |-> << [base |-> None, asets |-> << [base |-> None,
          st |-> None, reps |-> << [id |-> Some(<<"v">>), base |-> Some(<<"/",
          "/">>), st |-> None] >>] >>] >>]>>})]

Scenarios ==
    {ScenarioNested,
     ScenarioRepeated,
     ScenarioCycle,
     ScenarioNotHls,
     ScenarioNoExtension,
     ScenarioHosts,
     ScenarioQuery,
     ScenarioLongQuery,
     ScenarioEmptySegment,
     ScenarioMissing,
     ScenarioBadReference,
     ScenarioDirectory,
     ScenarioUpperCase,
     ScenarioUnsupported,
     ScenarioDash,
     ScenarioDashEndNumber,
     ScenarioDashNoDuration,
     ScenarioDashZero,
     ScenarioDashRounding,
     ScenarioDashBadUnit,
     ScenarioDashNotMpd,
     ScenarioDashNotXml,
     ScenarioDashBadBase}

\* ------------------------------------------------------------ end of scenarios


\* ------------------------------------------------------------ main

\* the extension as it is written, with its upper-case letters
StartExtensionAsWritten(url) ==
    LET path == UrlPath(url)
    IN  From(path, RFindChar(path, ".") + 1)

\* start_url.path().rsplit('.').next(), in lower case
StartExtension(url) ==
    LET path == UrlPath(url)
    IN  ToAsciiLowercase(From(path, RFindChar(path, ".") + 1))

\* main: the output directory, the Mirror, and the first call chosen by the
\* start URL's extension
Main ==
    /\ status = "start"
    /\ master_url_path_components' = PathComponentsOf(scenario.start)
    /\ fs' = CreateDirAll(fs, out_dir)
    /\ LET ext == StartExtension(scenario.start)
       IN  IF ext = <<"m", "3", "u", "8">>
           THEN /\ stack' = <<Call("mirror_manifest", scenario.start)>>
                /\ status' = "running"
           ELSE IF ext = <<"m", "p", "d">>
           THEN /\ stack' = <<Call("mirror_mpd", scenario.start)>>
                /\ status' = "running"
           ELSE /\ stack' = <<>>
                /\ status' = "failed"
    /\ UNCHANGED <<scenario, out_dir, visited, url_to_path, log, ret>>

Init ==
    /\ scenario \in Scenarios
    /\ out_dir = PathFrom(<<"o", "u", "t">>)
    /\ visited = {}
    /\ master_url_path_components = <<>>
    /\ url_to_path = [u \in {} |-> NoPath]
    /\ stack = <<>>
    /\ status = "start"
    /\ fs = [key \in {} |-> [dir |-> TRUE, body |-> <<>>]]
    /\ log = <<>>
    /\ ret = NoRet

Next ==
    \/ Main
    \/ ManifestEnter
    \/ ManifestFetch
    \/ ManifestLine
    \/ ManifestResume
    \/ ManifestWrite
    \/ BinaryEnter
    \/ BinaryFetch
    \/ MpdEnter
    \/ MpdFetch
    \/ MpdPeriod
    \/ MpdAdaptationSet
    \/ MpdRepresentation
    \/ MpdAfterTemplate
    \/ MpdAfterBase
    \/ TemplateInit
    \/ TemplateRange
    \/ TemplateMedia

Spec == Init /\ [][Next]_vars


\* ------------------------------------------------------------ the mapper alone

\* path_for_url takes any URL and either flag; the crawl passes a URL always
\* with the flag its extension gives it.  Here the Mirror is constructed for
\* a master URL and path_for_url is called with URLs and flags in any order.

MapperScenarios ==
    {ScenarioNested, ScenarioNoExtension, ScenarioHosts, ScenarioQuery,
     ScenarioEmptySegment, ScenarioDash}

\* the URLs the mapper is called with: those the scenario serves
MapperUrls(sc) == DOMAIN sc.pages

MaxMapped == 3

InitMapper ==
    /\ scenario \in MapperScenarios
    /\ out_dir = PathFrom(<<"o", "u", "t">>)
    /\ visited = {}
    /\ master_url_path_components = PathComponentsOf(scenario.start)
    /\ url_to_path = [u \in {} |-> NoPath]
    /\ stack = <<>>
    /\ status = "running"
    /\ fs = [key \in {} |-> [dir |-> TRUE, body |-> <<>>]]
    /\ log = <<>>
    /\ ret = NoRet

CallPathForUrl ==
    /\ \E url \in MapperUrls(scenario), is_manifest \in BOOLEAN :
         /\ url \in DOMAIN url_to_path \/ Cardinality(DOMAIN url_to_path) < MaxMapped
         /\ LET r == PathForUrl(url_to_path, out_dir, master_url_path_components,
                                url, is_manifest)
            IN  /\ url_to_path' = r.cache
                /\ ret' = [url |-> url, is_manifest |-> is_manifest, path |-> r.path]
    /\ UNCHANGED <<scenario, out_dir, visited, master_url_path_components,
                   stack, status, fs, log>>

NextMapper == CallPathForUrl

\* the run has ended: main returned Ok or an error, or the process panicked
Terminated == status \in {"done", "failed", "panicked"}

\* The crawl runs on: an await that returns is followed by the next step.
\* This is WF_vars(Next) with ENABLED <<Next>>_vars written out: a step is
\* enabled exactly as long as the run has not ended.
Fairness == []<>Terminated \/ []<><<Next>>_vars

FairSpec == Init /\ [][Next]_vars /\ Fairness

SpecMapper == InitMapper /\ [][NextMapper]_vars

\* ------------------------------------------------------------ the duration parser alone

\* parse_iso8601_duration_seconds takes any attribute value.  Here mirror_mpd
\* stands before lines 327-329 with a document whose root carries the
\* attribute, for every short text over a few characters.

MaxDurationLen == 4

DurationChars == {"1", "5", ".", "H", "M", "S", "X"}

DurationHeads == {<<"P", "T">>, <<"P">>, <<>>, <<"T", "P">>}

\* the strings over the characters with n characters at most
RECURSIVE StringsUpTo(_, _)
StringsUpTo(chars, n) ==
    IF n = 0 THEN {<<>>}
    ELSE LET shorter == StringsUpTo(chars, n - 1)
         IN  shorter \cup {<<c>> \o t : c \in chars, t \in shorter}

DurationInputs ==
    {head \o body : head \in DurationHeads,
                    body \in StringsUpTo(DurationChars, MaxDurationLen)}

InitDuration ==
    /\ scenario = ScenarioDash
    /\ out_dir = PathFrom(<<"o", "u", "t">>)
    /\ visited = {}
    /\ master_url_path_components = PathComponentsOf(scenario.start)
    /\ url_to_path = [u \in {} |-> NoPath]
    /\ \E s \in DurationInputs :
          stack = <<[Call("mirror_mpd", scenario.start) EXCEPT
                        !.pc = "duration",
                        !.doc = [parses |-> TRUE, root |-> <<"M", "P", "D">>,
                                 duration |-> Some(s), periods |-> <<>>]]>>
    /\ status = "running"
    /\ fs = [key \in {} |-> [dir |-> TRUE, body |-> <<>>]]
    /\ log = <<>>
    /\ ret = NoRet

\* root.attribute("mediaPresentationDuration").and_then(parse_iso8601_duration_seconds)
CallParseDuration ==
    /\ Running("mirror_mpd", "duration")
    /\ stack' = WithTop([Top EXCEPT
                            !.pc = "period",
                            !.duration = parse_iso8601_duration_seconds(Top.doc.duration.val)])
    /\ UNCHANGED <<scenario, out_dir, visited, master_url_path_components,
                   url_to_path, status, fs, log, ret>>

NextDuration == CallParseDuration

SpecDuration == InitDuration /\ [][NextDuration]_vars


\* ===================================================================
\* Properties
\* ===================================================================

\* the indices of the log's events of one kind for one URL
EventsOf(op, url) == {i \in DOMAIN log : log[i].op = op /\ log[i].url = url}

LoggedUrls == {log[i].url : i \in DOMAIN log}

\* the call on top of the stack is at its gate and its URL was visited before
SecondCall ==
    /\ stack # <<>>
    /\ Top.fn \in {"mirror_binary", "mirror_manifest", "mirror_mpd"}
    /\ Top.pc = "enter"
    /\ Top.url \in visited

\* ---------------------------------------------------------------- C1

FetchedAndWrittenOnce ==
    \A url \in LoggedUrls :
        /\ Cardinality(EventsOf("fetch", url)) <= 1
        /\ Cardinality(EventsOf("write", url)) <= 1
        /\ Cardinality(EventsOf("orig", url)) <= 1

SecondCallIsSilent ==
    SecondCall => /\ log' = log
                  /\ fs' = fs
                  /\ visited' = visited
                  /\ Len(stack') = Len(stack) - 1
                  /\ status' \in {"running", "done"}

\* C1: within one run a URL is fetched at most once and the file at its local
\* path is written at most once (a manifest's .orig copy likewise), however
\* many manifests reference it; a call whose URL is already in visited returns
\* Ok without fetching and without writing.
C1_Deduplication == [](FetchedAndWrittenOnce) /\ [][SecondCallIsSilent]_vars

\* a second call for a URL that was fetched once stands at the gate
C1_Witness ==
    /\ SecondCall
    /\ Top.fn = "mirror_binary"
    /\ Cardinality(EventsOf("fetch", Top.url)) = 1
    /\ Cardinality(EventsOf("write", Top.url)) = 1

\* ---------------------------------------------------------------- C2

\* the reference a playlist line carries, as mirror_manifest reads it: the
\* value of URI="..." on a tag line, the trimmed text of any other line that
\* is not blank; none on a tag line without URI
LineReference(line) ==
    LET trimmed == Trim(line)
        is_tag == StartsWith(trimmed, <<"#">>)
        attr == IF is_tag THEN find_uri_attr(line) ELSE None
    IN  IF is_tag
        THEN IF attr.some THEN Some(SubSeq(line, attr.val.start, attr.val.end - 1))
             ELSE None
        ELSE IF trimmed = <<>> THEN None ELSE Some(trimmed)

References(text) ==
    LET lines == Lines(text)
    IN  {LineReference(lines[i]).val :
            i \in {j \in DOMAIN lines : LineReference(lines[j]).some}}

\* the components of a path with every "x/.." pair taken out
RECURSIVE Collapse(_, _)
Collapse(done, rest) ==
    IF rest = <<>> THEN done
    ELSE IF rest[1] = <<".", ".">> /\ done # <<>> /\ done[Len(done)] # <<".", ".">>
    THEN Collapse(SubSeq(done, 1, Len(done) - 1), Tail(rest))
    ELSE Collapse(Append(done, rest[1]), Tail(rest))

\* the file a reference inside a local playlist names, as a file server or a
\* player resolves it against the playlist's directory
Resolve(dir, reference) ==
    LET joined == PathJoin(dir, reference)
    IN  [abs |-> joined.abs, comps |-> Collapse(<<>>, joined.comps)]

\* the local paths of the playlists this run has rewritten
RewrittenPlaylists ==
    {log[i].path : i \in {j \in DOMAIN log : /\ log[j].op = "write"
                                             /\ log[j].fn = "mirror_manifest"}}

\* C2: after a successful run every reference in every rewritten playlist
\* names a file that exists in the output tree, also when the playlist
\* references a .m3u8 URL whose content is not a playlist or when playlists
\* reference each other in a cycle.
C2_RoundTrip ==
    status = "done" =>
        \A p \in RewrittenPlaylists :
            \A reference \in References(fs[FileKey(p)].body) :
                IsFile(fs, Resolve(Parent(p).val, reference))

\* ---------------------------------------------------------------- C3

\* the URLs mirror_manifest fetched and found not to be playlists
FetchedNotHls ==
    {log[i].url : i \in {j \in DOMAIN log :
                            /\ log[j].op = "fetch"
                            /\ log[j].fn = "mirror_manifest"
                            /\ HasPage(scenario, log[j].url)
                            /\ ~IsHlsManifest(PageBody(scenario, log[j].url))}}

\* C3: a resource that mirror_manifest fetched and whose text does not start
\* with #EXTM3U is stored at the local path its URL maps to, and the run is
\* not aborted because of it.
C3_NotHlsStored ==
    status = "done" =>
        \A url \in FetchedNotHls \cap DOMAIN url_to_path :
            /\ IsFile(fs, FileKey(url_to_path[url]))
            /\ fs[FileKey(url_to_path[url])].body = PageBody(scenario, url)

\* ---------------------------------------------------------------- C4

\* the URLs a served playlist references, each resolved against the
\* playlist's own URL; none for a URL that is not served or is not a playlist
ChildUrls(url) ==
    IF HasPage(scenario, url) /\ IsHlsManifest(PageBody(scenario, url))
    THEN {UrlJoin(url, reference).val :
             reference \in {x \in References(PageBody(scenario, url)) :
                               UrlJoin(url, x).some}}
    ELSE {}

\* the least set of URLs that holds urls and the children of its members
RECURSIVE Reachable(_)
Reachable(urls) ==
    LET more == urls \cup UNION {ChildUrls(url) : url \in urls}
    IN  IF more = urls THEN urls ELSE Reachable(more)

IsHlsRun == StartExtension(scenario.start) = <<"m", "3", "u", "8">>

\* C4: after a successful HLS run every URL reachable from the start URL
\* through playlist references has been fetched, also when the URL of a
\* referenced playlist does not end in .m3u8.
C4_Completeness ==
    (status = "done" /\ IsHlsRun) =>
        \A url \in Reachable({scenario.start}) : EventsOf("fetch", url) # {}

\* ---------------------------------------------------------------- C5

\* C5: two distinct URLs never map to the same local path, so no mirrored
\* file is overwritten with the content of another URL.
C5_Injective ==
    \A u1, u2 \in DOMAIN url_to_path :
        u1 # u2 => FileKey(url_to_path[u1]) # FileKey(url_to_path[u2])

\* ---------------------------------------------------------------- C6

DifferOnlyInQuery(u1, u2) ==
    u1.host = u2.host /\ u1.segs = u2.segs /\ u1.query # u2.query

\* C6: two URLs that differ only in their query strings map to different
\* file names, whatever the length of the queries and whichever characters
\* they differ in.
C6_QueryDistinct ==
    \A u1, u2 \in DOMAIN url_to_path :
        DifferOnlyInQuery(u1, u2) =>
            FileName(url_to_path[u1]) # FileName(url_to_path[u2])

\* ---------------------------------------------------------------- C8

\* the path lies strictly below the directory
IsBelow(path, dir) ==
    /\ path.abs = dir.abs
    /\ Len(path.comps) > Len(dir.comps)
    /\ SubSeq(path.comps, 1, Len(dir.comps)) = dir.comps

\* the directories of the path below dir are the URL's path segments that
\* come right before its final segment
KeepsUrlSuffix(path, dir, url) ==
    LET n == Len(path.comps) - Len(dir.comps)
        m == Len(url.segs)
    IN  /\ n <= m
        /\ SubSeq(path.comps, Len(dir.comps) + 1, Len(path.comps) - 1)
               = SubSeq(url.segs, m - n + 1, m - 1)

\* C8: every local path lies under the output root, where it is a non-empty
\* suffix of the URL's path segments (the file name possibly renamed), and
\* holds no ".." component.
C8_UnderOutputRoot ==
    \A url \in DOMAIN url_to_path :
        /\ IsBelow(url_to_path[url], out_dir)
        /\ KeepsUrlSuffix(url_to_path[url], out_dir, url)
        /\ \A i \in DOMAIN url_to_path[url].comps :
               url_to_path[url].comps[i] # <<".", ".">>

\* ---------------------------------------------------------------- C7

CacheKept ==
    \A url \in DOMAIN url_to_path :
        url \in DOMAIN url_to_path' /\ url_to_path'[url] = url_to_path[url]

ReturnsCached ==
    (ret' # NoRet /\ ret'.url \in DOMAIN url_to_path) =>
        ret'.path = url_to_path[ret'.url]

\* C7: path_for_url returns for a URL the path it returned for it before,
\* whatever is_manifest flag either call passed, and an entry of url_to_path
\* is never changed and never removed.
C7_CacheStable == [][CacheKept /\ ReturnsCached]_vars

\* a call with is_manifest = true returned a path without extension: the path
\* stored by an earlier call with is_manifest = false
C7_Witness ==
    /\ ret # NoRet
    /\ ret.is_manifest
    /\ ret.url \in DOMAIN url_to_path
    /\ ret.path = url_to_path[ret.url]
    /\ ret.path = ComputePath(out_dir, master_url_path_components, ret.url, FALSE)
    /\ ret.path # ComputePath(out_dir, master_url_path_components, ret.url, TRUE)

\* ---------------------------------------------------------------- C9

\* the master manifest's directory: the components before its file name
MasterDir == SubSeq(master_url_path_components, 1,
                    Len(master_url_path_components) - 1)

\* the URL is on the master's host, in or below the master's directory
BelowMaster(url) ==
    /\ url.host = scenario.start.host
    /\ Len(url.segs) > Len(MasterDir)
    /\ SubSeq(url.segs, 1, Len(MasterDir)) = MasterDir

\* the output root followed by the URL's path relative to the master's
\* directory
MirroredPath(url) ==
    [abs   |-> out_dir.abs,
     comps |-> out_dir.comps
               \o DropEmpty(SubSeq(url.segs, Len(MasterDir) + 1, Len(url.segs)))]

LayoutBelowMaster ==
    \A url \in DOMAIN url_to_path :
        (BelowMaster(url) /\ ~url.query.some) =>
            FileKey(url_to_path[url]) = MirroredPath(url)

\* in the playlist rewritten for url at path, every reference names the local
\* path of the URL the original reference resolves to, with "/" separators
RewrittenRelative(url, path) ==
    LET old == Lines(PageBody(scenario, url))
        new == Lines(fs[FileKey(path)].body)
    IN  \A i \in DOMAIN old :
            LET reference == LineReference(old[i])
                child == UrlJoin(url, reference.val)
            IN  (reference.some /\ child.some) =>
                    /\ i \in DOMAIN new
                    /\ LineReference(new[i]).some
                    /\ Find(LineReference(new[i]).val, <<"\\">>) = 0
                    /\ child.val \in DOMAIN url_to_path
                    /\ Resolve(Parent(path).val, LineReference(new[i]).val)
                          = FileKey(url_to_path[child.val])

RelativeReferences ==
    \A i \in DOMAIN log :
        (log[i].op = "write" /\ log[i].fn = "mirror_manifest") =>
            RewrittenRelative(log[i].url, log[i].path)

\* master /a/b/master.m3u8 references sub/child.m3u8, which references seg1.ts
NestedLayout ==
    (scenario = ScenarioNested /\ status = "done") =>
        LET master == FileKey(PathFrom(<<"o", "u", "t", "/", "m", "a", "s", "t", "e", "r", ".", "m", "3", "u", "8">>))
            child  == FileKey(PathFrom(<<"o", "u", "t", "/", "s", "u", "b", "/", "c", "h", "i", "l", "d", ".", "m", "3", "u", "8">>))
            seg    == FileKey(PathFrom(<<"o", "u", "t", "/", "s", "u", "b", "/", "s", "e", "g", "1", ".", "t", "s">>))
        IN  /\ IsFile(fs, master) /\ IsFile(fs, child) /\ IsFile(fs, seg)
            /\ References(fs[master].body) = {<<"s", "u", "b", "/", "c", "h", "i", "l", "d", ".", "m", "3", "u", "8">>}
            /\ References(fs[child].body) = {<<"s", "e", "g", "1", ".", "t", "s">>}

\* C9: a resource whose URL lies in or below the master manifest's directory
\* maps to the output root joined with the URL path relative to that
\* directory, and the reference written into a rewritten playlist is the
\* "/"-separated relative path from the playlist's local directory to the
\* child's local path; master /a/b/master.m3u8 with sub/child.m3u8 with
\* seg1.ts gives out/master.m3u8, out/sub/child.m3u8 and out/sub/seg1.ts with
\* the lines sub/child.m3u8 and seg1.ts.
C9_Layout == LayoutBelowMaster /\ RelativeReferences /\ NestedLayout

\* ---------------------------------------------------------------- C10

\* the calls on the stack that have passed their gate
PastGate ==
    {i \in DOMAIN stack :
        /\ stack[i].fn \in {"mirror_binary", "mirror_manifest", "mirror_mpd"}
        /\ stack[i].pc # "enter"}

\* no URL is being mirrored inside its own mirroring
NoReentry ==
    \A i, j \in PastGate : stack[i].url = stack[j].url => i = j

\* C10: the crawl terminates on every finite reference graph, cycles
\* included, as long as every fetch and every file write returns; the
\* recursion never enters a URL it is already inside of.
C10_Terminates == <>Terminated /\ []NoReentry

\* a run over playlists that reference each other has ended
C10_Witness ==
    /\ status = "done"
    /\ \E url \in visited : url \in Reachable(ChildUrls(url))

\* ---------------------------------------------------------------- C11

\* a GET has failed
FetchFailed == \E i \in DOMAIN log : log[i].op = "error"

\* this step is the one in which a GET fails
FetchFails == ~FetchFailed /\ FetchFailed'

\* the playlists whose mirroring is under way: the one that referenced the
\* URL being fetched, and its ancestors
OpenPlaylists ==
    {stack[i].url : i \in {j \in DOMAIN stack :
                              /\ stack[j].fn = "mirror_manifest"
                              /\ stack[j].pc # "enter"}}

NoRewrittenPlaylistOf(events, urls) ==
    \A i \in DOMAIN events :
        (events[i].op = "write" /\ events[i].fn = "mirror_manifest") =>
            events[i].url \notin urls

FailureEndsRun ==
    /\ FetchFails => /\ status' = "failed"
                     /\ fs' = fs
                     /\ NoRewrittenPlaylistOf(log', OpenPlaylists)
    /\ FetchFailed => /\ log' = log
                      /\ fs' = fs
                      /\ visited' = visited

\* C11: a network or status error on the first fetch or on a nested one ends
\* the run in failure: from the failed fetch on no fetch is issued and no
\* file is written, and the playlist that referenced the failing resource
\* and its ancestors are never written.
C11_FetchErrorAborts ==
    /\ [](FetchFailed => status = "failed")
    /\ [][FailureEndsRun]_vars

\* the fetch of a resource referenced by a playlist has failed, after the
\* playlist's unmodified copy was written
C11_Witness ==
    /\ FetchFailed
    /\ \E i \in DOMAIN log :
          /\ log[i].op = "error"
          /\ log[i].url # scenario.start
          /\ EventsOf("orig", scenario.start) # {}
          /\ EventsOf("write", scenario.start) = {}

\* ---------------------------------------------------------------- C12

IsTagLine(line) == StartsWith(Trim(line), <<"#">>)

\* where the first URI=" of the line ends, 0 if there is none
UriOpens(line) ==
    LET at == Find(line, <<"U", "R", "I", "=", "\"">>)
    IN  IF at = 0 THEN 0 ELSE at + 4

\* where the next " after it stands, 0 if there is none
UriCloses(line) ==
    LET rest == Find(From(line, UriOpens(line) + 1), <<"\"">>)
    IN  IF UriOpens(line) = 0 \/ rest = 0 THEN 0 ELSE UriOpens(line) + rest

HasUriAttr(line) == IsTagLine(line) /\ UriCloses(line) # 0

\* a line mirror_manifest has nothing to rewrite in
IsPlainLine(line) ==
    \/ IsTagLine(line) /\ ~HasUriAttr(line)
    \/ ~IsTagLine(line) /\ Trim(line) = <<>>

\* new is old with another text between URI=" and the next "
DiffersInUriValueOnly(old, new) ==
    LET before == SubSeq(old, 1, UriOpens(old))
        after == From(old, UriCloses(old))
        value == SubSeq(new, Len(before) + 1, Len(new) - Len(after))
    IN  /\ Len(new) >= Len(before) + Len(after)
        /\ new = before \o value \o after
        /\ Find(value, <<"\"">>) = 0

\* the lines of the playlist written to path, against those fetched from url
FramePreserved(url, path) ==
    LET old == Lines(PageBody(scenario, url))
        new == Lines(fs[FileKey(path)].body)
    IN  /\ Len(new) = Len(old)
        /\ \A i \in DOMAIN old :
              /\ IsPlainLine(old[i]) => new[i] = old[i]
              /\ HasUriAttr(old[i]) => DiffersInUriValueOnly(old[i], new[i])

\* C12: a rewritten playlist has the lines of the fetched playlist, as many
\* and in the same order; a tag line with URI="..." differs from its original
\* only between URI=" and the next "; tag lines without URI and blank lines
\* are the same; bare reference lines alone are replaced as a whole.
C12_FramePreserved ==
    \A i \in DOMAIN log :
        (log[i].op = "write" /\ log[i].fn = "mirror_manifest") =>
            FramePreserved(log[i].url, log[i].path)

\* a playlist was rewritten that holds a tag line with text after the value
\* of its URI, a tag line without URI, a blank line and a bare reference
C12_Witness ==
    \E i \in DOMAIN log :
        /\ log[i].op = "write" /\ log[i].fn = "mirror_manifest"
        /\ LET old == Lines(PageBody(scenario, log[i].url))
           IN  /\ \E j \in DOMAIN old :
                     /\ HasUriAttr(old[j])
                     /\ UriCloses(old[j]) < Len(old[j])
               /\ \E j \in DOMAIN old : IsTagLine(old[j]) /\ ~HasUriAttr(old[j])
               /\ \E j \in DOMAIN old : old[j] = <<>>
               /\ \E j \in DOMAIN old : ~IsTagLine(old[j]) /\ ~IsPlainLine(old[j])

\* ---------------------------------------------------------------- C13

\* the value of a decimal numeral as the exact fraction num/den
DecimalFraction(s) ==
    LET dot == Find(s, <<".">>)
        whole == IF dot = 0 THEN s ELSE SubSeq(s, 1, dot - 1)
        frac == IF dot = 0 THEN <<>> ELSE From(s, dot + 1)
    IN  [num |-> DecimalValue(whole \o frac),
         den |-> DecimalValue(<<"1">> \o [i \in 1..Len(frac) |-> "0"])]

\* the seconds a duration PT..H..M..S names, as the exact fraction num/den
RECURSIVE ExactSeconds(_, _)
ExactSeconds(rest, total) ==
    LET i == NumberPrefixLen(rest)
        val == DecimalFraction(SubSeq(rest, 1, i))
        unit == rest[i + 1]
        factor == IF unit = "H" THEN 3600 ELSE IF unit = "M" THEN 60 ELSE 1
    IN  IF rest = <<>> \/ i = 0 \/ i >= Len(rest) THEN total
        ELSE ExactSeconds(From(rest, i + 2),
                          [num |-> total.num * val.den + factor * val.num * total.den,
                           den |-> total.den * val.den])

\* the presentation duration of the manifest the run started from
PresentationSeconds ==
    ExactSeconds(From(PageDoc(scenario, stack[1].url).duration.val, 3),
                 [num |-> 0, den |-> 1])

\* ceil(T * ts / d)
ExactCount(T, ts, d) == (T.num * ts + T.den * d - 1) \div (T.den * d)

\* the template of the call on top gives a duration and a time scale that
\* are not 0, no endNumber, and the presentation duration is known
CountIsDerived ==
    /\ ~AttributeU64(Top.st.endNumber).some
    /\ AttributeU64(Top.st.duration).some
    /\ AttributeU64(Top.st.duration).val > 0
    /\ ~(AttributeU64(Top.st.timescale).some /\ AttributeU64(Top.st.timescale).val = 0)
    /\ Top.duration.some

StartNumberOf(frame) ==
    IF AttributeU64(frame.st.startNumber).some
    THEN AttributeU64(frame.st.startNumber).val ELSE 1

\* the last index the call on top has to mirror
LastIndex ==
    IF AttributeU64(Top.st.endNumber).some THEN AttributeU64(Top.st.endNumber).val
    ELSE StartNumberOf(Top)
         + ExactCount(PresentationSeconds,
                      IF AttributeU64(Top.st.timescale).some
                      THEN AttributeU64(Top.st.timescale).val ELSE 1,
                      AttributeU64(Top.st.duration).val)
         - 1

\* the range is not empty
HasIndices == AttributeU64(Top.st.endNumber).some \/ CountIsDerived

\* a step of the loop over the segment numbers: the first number is
\* startNumber, a segment is mirrored only up to the last index, and the
\* loop ends only behind the last index
IndexInRange ==
    /\ (Running("handle_segment_template", "range") /\ stack' # <<>>
           /\ Len(stack') = Len(stack) /\ stack'[Len(stack)].pc = "media")
        => stack'[Len(stack)].num = StartNumberOf(Top)
    /\ (Running("handle_segment_template", "media") /\ HasIndices
           /\ LastIndex >= StartNumberOf(Top))
        => /\ Len(stack') > Len(stack) =>
                /\ Top.num <= LastIndex
                /\ stack'[Len(stack)].num = Top.num + 1
           /\ (Len(stack') < Len(stack) /\ status' # "failed") =>
                Top.num = LastIndex + 1

\* C13: with a media template, no endNumber, a duration d in units of the
\* time scale ts and a presentation of T seconds, handle_segment_template
\* mirrors the segments startNumber .. startNumber + ceil(T*ts/d) - 1, each
\* once and in increasing order; with endNumber, startNumber .. endNumber.
C13_SegmentIndices == [][IndexInRange]_vars

\* ---------------------------------------------------------------- C14

\* the path of the start URL ends with '.' and ext in whatever case
StartsAs(ext) == EndsWith(ToAsciiLowercase(UrlPath(scenario.start)), <<".">> \o ext)

IsUnsupportedStart == ~StartsAs(<<"m", "3", "u", "8">>) /\ ~StartsAs(<<"m", "p", "d">>)

\* what main makes of the start URL
FirstCall ==
    status = "start" =>
        IF StartsAs(<<"m", "3", "u", "8">>)
        THEN status' = "running" /\ stack' = <<Call("mirror_manifest", scenario.start)>>
        ELSE IF StartsAs(<<"m", "p", "d">>)
        THEN status' = "running" /\ stack' = <<Call("mirror_mpd", scenario.start)>>
        ELSE status' = "failed"

\* C14: a start URL whose extension, compared without regard to case, is
\* neither m3u8 nor mpd ends the run with an error, with no fetch issued and
\* no URL visited; m3u8 starts mirror_manifest and mpd starts mirror_mpd on
\* the start URL.
C14_StartExtension ==
    /\ [][FirstCall]_vars
    /\ [](IsUnsupportedStart =>
            /\ status \in {"start", "failed"}
            /\ visited = {}
            /\ log = <<>>)

\* main has refused a start URL that names no manifest
C14_Witness ==
    /\ IsUnsupportedStart
    /\ status = "failed"
    /\ log = <<>>

\* ---------------------------------------------------------------- C15

\* a GET of the URL of the call on top is about to be sent
FetchIsNext ==
    /\ status = "running"
    /\ stack # <<>>
    /\ Top.pc = "fetch"

\* every GET that was sent or failed follows the one insertion of its URL
\* into the visited set
InsertedOnceBefore(events) ==
    \A i \in DOMAIN events :
        events[i].op \in {"fetch", "error"} =>
            /\ \E j \in 1..(i - 1) :
                  events[j].op = "visit" /\ events[j].url = events[i].url
            /\ Cardinality({j \in DOMAIN events :
                                events[j].op = "visit" /\ events[j].url = events[i].url}) = 1

\* an insertion puts one URL into the set that was not in it, and no URL
\* leaves the set
InsertsOneNew ==
    /\ visited \subseteq visited'
    /\ visited' # visited =>
          /\ Len(log') = Len(log) + 1
          /\ log'[Len(log')].op = "visit"
          /\ visited' = visited \cup {log'[Len(log')].url}
          /\ log'[Len(log')].url \notin visited

\* C15: every URL that is fetched was put into the visited set before its
\* GET was sent, and it is put there exactly once; no GET is sent for a URL
\* that is not in the set.
C15_MarkThenFetch ==
    /\ [](FetchIsNext => Top.url \in visited)
    /\ [](InsertedOnceBefore(log) /\ \A i \in DOMAIN log : log[i].url \in visited)
    /\ [][InsertsOneNew]_vars

\* a run is over in which a URL was fetched by one call and met again by a
\* second call
C15_Witness ==
    /\ status = "done"
    /\ \E i \in DOMAIN log : log[i].op = "fetch"
    /\ \E u \in visited :
          Cardinality({i \in DOMAIN log : log[i].op = "visit" /\ log[i].url = u}) = 1
    /\ scenario = ScenarioRepeated

\* ---------------------------------------------------------------- C16

\* the call of mirror_manifest on top has its child's mirror behind it and
\* is about to produce the rewritten line
LineIsNext ==
    /\ status = "running"
    /\ stack # <<>>
    /\ Top.fn = "mirror_manifest"
    /\ Top.pc = "resume"

\* the local path of the URL is registered and its file is written
FullyMirrored(url) ==
    /\ url \in DOMAIN url_to_path
    /\ IsFile(fs, FileKey(url_to_path[url]))

\* C16: when a playlist's rewritten line is produced, the child it names
\* (playlist or binary) is fully mirrored: its local path is registered and
\* its own file is written; also where a playlist names itself or one of
\* its ancestors.  (A child that is no HLS playlist at all is left to C3.)
C16_ChildBeforeParent ==
    (LineIsNext /\ Top.child_url \notin FetchedNotHls) => FullyMirrored(Top.child_url)

\* ---------------------------------------------------------------- C17

\* the text the parser was called with, and what it returned
DurationText == Top.doc.duration.val

DurationParsed == stack # <<>> /\ Top.fn = "mirror_mpd" /\ Top.pc = "period"

\* a letter that is no unit stands somewhere behind the first two characters
HasOtherUnit(s) ==
    \E i \in 3..Len(s) : s[i] \notin Digits \cup {".", "H", "M", "S"}

\* a number and the unit behind it, or nothing
IsComponent(t, unit) ==
    t = <<>> \/ (Len(t) >= 2 /\ t[Len(t)] = unit /\ ParseF64(SubSeq(t, 1, Len(t) - 1)).some)

ComponentValue(t) ==
    IF t = <<>> THEN F64Zero ELSE ParseF64(SubSeq(t, 1, Len(t) - 1)).val

\* s is PT[nH][nM][nS] with its hours ending at a and its minutes at b
IsDurationAt(s, a, b) ==
    /\ StartsWith(s, <<"P", "T">>)
    /\ 2 <= a /\ a <= b /\ b <= Len(s)
    /\ IsComponent(SubSeq(s, 3, a), "H")
    /\ IsComponent(SubSeq(s, a + 1, b), "M")
    /\ IsComponent(SubSeq(s, b + 1, Len(s)), "S")

\* hours * 3600 + minutes * 60 + seconds
DurationAt(s, a, b) ==
    F64Add(F64Add(F64Mul(ComponentValue(SubSeq(s, 3, a)), F64FromU64(3600)),
                  F64Mul(ComponentValue(SubSeq(s, a + 1, b)), F64FromU64(60))),
           ComponentValue(SubSeq(s, b + 1, Len(s))))

NoPrefixIsNone == ~StartsWith(DurationText, <<"P", "T">>) => Top.duration = None

OtherUnitIsNone == HasOtherUnit(DurationText) => Top.duration = None

WellFormedIsSum ==
    \A a, b \in 2..Len(DurationText) :
        IsDurationAt(DurationText, a, b) =>
            Top.duration = Some(DurationAt(DurationText, a, b))

\* C17: the duration parser returns nothing for a text that does not start
\* with PT and for a text with a unit letter other than H, M and S, wherever
\* it stands and with or without digits before it; for PT[nH][nM][nS] it
\* returns hours * 3600 + minutes * 60 + seconds.
C17_DurationParser ==
    DurationParsed => NoPrefixIsNone /\ OtherUnitIsNone /\ WellFormedIsSum

\* the two parts of it the parser keeps
DurationParserKept == DurationParsed => NoPrefixIsNone /\ WellFormedIsSum

\* ---------------------------------------------------------------- C18

\* the mediaPresentationDuration of the manifest the run started from is
\* there and is a duration PT[nH][nM][nS]
PresentationIsKnown ==
    LET text == PageDoc(scenario, stack[1].url).duration
    IN  /\ text.some
        /\ \E a, b \in 2..Len(text.val) : IsDurationAt(text.val, a, b)

\* the call on top has mirrored the initialization segment and has a media
\* template, no endNumber, and a duration or a presentation duration that
\* is missing or cannot be parsed
RangeIsUnknown ==
    /\ Running("handle_segment_template", "range")
    /\ Top.st.media.some /\ Top.st.media.val # <<>>
    /\ ~AttributeU64(Top.st.endNumber).some
    /\ ~AttributeU64(Top.st.duration).some \/ ~PresentationIsKnown

\* the initialization segment the template on top declares was fetched
InitIsMirrored ==
    Top.st.initialization.some =>
        \E i \in DOMAIN log :
            /\ log[i].op = "fetch"
            /\ Some(log[i].url) =
                   UrlJoin(Top.url, Trim(Replace(Top.st.initialization.val,
                                                 RepresentationIdTag, Top.rep_id)))

\* the call returns to the walk with nothing fetched
SkipsMedia ==
    RangeIsUnknown =>
        /\ InitIsMirrored
        /\ stack' = SubSeq(stack, 1, Len(stack) - 1)
        /\ status' = status
        /\ log' = log

\* C18: with a media template, no endNumber, and the template's duration or
\* the presentation duration missing or unparseable (as "3M30S"), no media
\* segment of the Representation is fetched, its initialization segment is
\* mirrored all the same, the run is not aborted and the walk goes on.
C18_SkipsMedia == [][SkipsMedia]_vars

\* ---------------------------------------------------------------- C19

\* the manifest the run started from, where it is a DASH manifest
StartDoc == PageDoc(scenario, scenario.start)

IsDashRun ==
    /\ StartExtension(scenario.start) = <<"m", "p", "d">>
    /\ HasPage(scenario, scenario.start)
    /\ StartDoc.parses
    /\ StartDoc.root = <<"M", "P", "D">>

\* base joined to the URL above it, when it is given
Under(above, base) == IF base.some THEN UrlJoin(above.val, Trim(base.val)) ELSE above

\* the URLs the Representations name by a BaseURL of their own that does
\* not end in '/', resolved through their AdaptationSet and Period
FileBaseUrlsOf(above, aset) ==
    {Under(Under(above, aset.base), aset.reps[r].base).val :
        r \in {n \in DOMAIN aset.reps :
                  /\ aset.reps[n].base.some
                  /\ ~EndsWith(TrimEnd(aset.reps[n].base.val), <<"/">>)}}

FileBaseUrls ==
    UNION {UNION {FileBaseUrlsOf(Under(Some(scenario.start), StartDoc.periods[p].base),
                                 StartDoc.periods[p].asets[a]) :
                    a \in DOMAIN StartDoc.periods[p].asets} :
             p \in DOMAIN StartDoc.periods}

\* C19: after a DASH run that ended well, every Representation's own BaseURL
\* that does not end in '/' has been mirrored as a binary, with or without a
\* SegmentTemplate and with or without an id.
C19_BaseUrlMirrored ==
    (IsDashRun /\ status = "done") =>
        \A url \in FileBaseUrls :
            \E i \in DOMAIN log :
                /\ log[i].op = "write"
                /\ log[i].fn = "mirror_binary"
                /\ log[i].url = url

\* ---------------------------------------------------------------- C20

\* the template of the call on top has a media template and names no
\* segment: its endNumber is below its startNumber, or it has none and the
\* presentation lasts 0 seconds
RangeIsEmpty ==
    /\ status = "running"
    /\ stack # <<>>
    /\ Top.fn = "handle_segment_template"
    /\ Top.pc \in {"range", "media"}
    /\ Top.st.media.some /\ Top.st.media.val # <<>>
    /\ IF AttributeU64(Top.st.endNumber).some
       THEN AttributeU64(Top.st.endNumber).val < StartNumberOf(Top)
       ELSE /\ AttributeU64(Top.st.duration).some
            /\ PresentationIsKnown
            /\ PresentationSeconds.num = 0

\* the call goes from the range to the loop and from the loop back to the
\* walk, with nothing fetched
ReturnsEmpty ==
    RangeIsEmpty =>
        /\ status' = status
        /\ log' = log
        /\ Len(stack') <= Len(stack)
        /\ Top.pc = "media" => stack' = SubSeq(stack, 1, Len(stack) - 1)

\* C20: with a derived segment count of 0 (a presentation of 0 seconds) or
\* an endNumber below startNumber, handle_segment_template fetches no media
\* segment and returns normally, for every startNumber, 0 among them:
\* startNumber + count - 1 never leaves the range of u64.
C20_EmptyRange == [][ReturnsEmpty]_vars /\ [](status # "panicked")

\* ---------------------------------------------------------------- C21

\* the URLs that have an entry in the URL-to-path cache
CachedUrls == DOMAIN url_to_path

\* every cached URL has been marked visited
CachedAreVisited == CachedUrls \subseteq visited

\* a step that calls path_for_url (it records the call, or adds an entry to
\* the cache) calls it for a URL that is marked visited by then: the mark of
\* the gate comes first in the steps that do both
CalledForVisited ==
    /\ ret' # ret => ret'.url \in visited'
    /\ url_to_path' # url_to_path =>
          /\ ret' # NoRet
          /\ DOMAIN url_to_path' = CachedUrls \cup {ret'.url}
          /\ ret'.url \in visited'

\* no step takes a URL out of the visited set
VisitedGrows == visited \subseteq visited'

\* C21: in every reachable state the URLs with an entry in the URL-to-path
\* cache are a subset of the visited set: path_for_url is never called for
\* a URL before that URL has been marked visited, and the visited set only
\* grows during a run.
C21_CacheWithinVisited ==
    [](CachedAreVisited) /\ [][CalledForVisited /\ VisitedGrows]_vars

\* a run that ended after path_for_url was called for a referenced URL,
\* not only for the start URL, with several URLs cached and visited
C21_Witness ==
    /\ status = "done"
    /\ ret # NoRet
    /\ ret.url # scenario.start
    /\ Cardinality(CachedUrls) >= 2
    /\ CachedAreVisited

====
